---- MODULE Spec2Model ----
(***************************************************************************)
(* Source2Social (sc2sm): GitHub push webhook -> generated post -> review  *)
(* -> publish to X/Twitter, plus the OAuth flows around it.                *)
(*                                                                         *)
(* Every handler is one atomic action: the server is synchronous and       *)
(* request-per-thread, and each handler runs to its response.  The inputs  *)
(* of a handler (headers, payload, form fields) and the behaviour of the   *)
(* external services it calls (completion API, database, X API, OAuth      *)
(* provider) are chosen with \E from small sets.                           *)
(*                                                                         *)
(* Python's None is the string None below; texts are abstracted to their   *)
(* length, their surrounding whitespace and the values embedded in them.   *)
(***************************************************************************)
EXTENDS Integers, Sequences, FiniteSets, TLC

VARIABLES
    GITHUB_WEBHOOK_SECRET,  \* app.py module constant, from the environment
    openai_client,          \* app.py module global: TRUE iff a client exists
    twitter_poster,         \* TwitterPoster instance: [client, api]
    posts,                  \* rows of table posts, in insertion order
    response,               \* response of the last request to the post pipeline
    tweets,                 \* network calls made by the last post_tweet
    wire,                   \* a webhook delivery on its way to the server
    verdict,                \* results of the two signature verifiers on wire
    session,                \* Flask session of the browser: [oauth_state]
    oauth_tokens,           \* rows of table oauth_tokens
    x_exchanges,            \* calls made to XOAuthManager.exchange_code_for_token
    x_request,              \* last request to the X OAuth routes and its answer
    gh_session,             \* Flask session in routes/auth.py: [user_id]
    users,                  \* rows of table users (models/user.py)
    gh_exchanges,           \* POSTs made to github.com/login/oauth/access_token
    gh_request,             \* last request to routes/auth.py and its answer
    X_CLIENT_ID,            \* app.py module constants, from the environment
    X_CLIENT_SECRET,
    GITHUB_CLIENT_ID,       \* current_app.config['GITHUB_CLIENT_ID']
    generated,              \* last call of generate_post and what it returned
    validated,              \* last call of validate_report_parameters
    crabbit,                \* last call of generate_coderabbit_report
    coderabbit_reports,     \* rows of table coderabbit_reports (app.py)
    cr_tasks,               \* background threads of api_coderabbit_analyze
    cr_handler,             \* the request api_coderabbit_analyze is serving
    cr_response,            \* last response of the /api/coderabbit routes
    reports,                \* rows of table reports (database/db.py)
    report_metrics,         \* rows of table report_metrics
    rp_response,            \* last response of the routes of routes/reports.py
    review_calls,           \* calls made to generate_coderabbit_report by routes
    commit_table,           \* rows of table commits (models/commit.py)
    ingested,               \* last ingestion by GitHubService and its result
    post_table,             \* rows of table posts (models/post.py)
    repository_table,       \* rows of table repositories (models/repository.py)
    site_response,          \* last answer of routes/twitter.py, routes/github.py
    report_rows,            \* rows of table reports the listing routes read
    listing,                \* last answer of the listing routes
    device_codes,           \* auth_app.py module global device_codes
    device_issued,          \* the device codes GitHub has issued so far
    device_elapsed,         \* the issued codes whose expires_in has passed
    device_threads,         \* the request each thread serves and where it is
    device_last,            \* last answer of the device-flow routes
    device_tokens           \* access tokens answered, per device code

configVars == << GITHUB_WEBHOOK_SECRET, openai_client, twitter_poster,
                 X_CLIENT_ID, X_CLIENT_SECRET, GITHUB_CLIENT_ID >>
sigVars == << wire, verdict >>
postVars == << posts, response, tweets, generated >>
xVars == << session, oauth_tokens, x_exchanges, x_request >>
ghVars == << gh_session, users, gh_exchanges, gh_request >>
reportVars == << validated, crabbit, coderabbit_reports, cr_tasks, cr_handler,
                 cr_response, reports, report_metrics, rp_response, review_calls >>
commitVars == << commit_table, ingested >>
siteVars == << post_table, repository_table, site_response >>
listVars == << report_rows, listing >>
deviceVars == << device_codes, device_issued, device_elapsed, device_threads,
                 device_last, device_tokens >>
restVars == << siteVars, listVars, deviceVars >>

vars == << configVars, sigVars, postVars, xVars, ghVars, reportVars, commitVars,
           restVars >>

None == "None"

(***************************************************************************)
(* Bounds of the model.                                                    *)
(***************************************************************************)
MaxCommits == 2        \* commits in one push payload
MaxPosts == 2          \* rows of table posts
MaxExchanges == 2      \* token exchanges per OAuth provider
MaxReports == 2        \* rows of a report table

(***************************************************************************)
(* Texts.  A text is [len, lead, trail, has]: its length in characters,    *)
(* how many of them are leading and trailing whitespace, and the values    *)
(* (commit message, repository name, file names) that occur in it.  A      *)
(* text of whitespace only has lead = trail = len.                         *)
(***************************************************************************)
NULL == [null |-> TRUE]          \* None / SQL NULL where a text is expected

Lit(s) == [len |-> Len(s), lead |-> 0, trail |-> 0, has |-> {}]

Value(name, n) == [len |-> n, lead |-> 0, trail |-> 0, has |-> {name}]

Blank(n) == [len |-> n, lead |-> n, trail |-> n, has |-> {}]

EmptyText == Blank(0)

IsBlank(t) == t.lead = t.len

\* a + b on str
Concat(a, b) ==
    [len |-> a.len + b.len,
     lead |-> IF IsBlank(a) THEN a.len + b.lead ELSE a.lead,
     trail |-> IF IsBlank(b) THEN b.len + a.trail ELSE b.trail,
     has |-> a.has \cup b.has]

\* str.strip()
strip(t) ==
    IF IsBlank(t) THEN [EmptyText EXCEPT !.has = t.has]
    ELSE [len |-> t.len - t.lead - t.trail, lead |-> 0, trail |-> 0, has |-> t.has]

\* sep.join(items)
RECURSIVE join(_, _)
join(sep, items) ==
    IF items = << >> THEN EmptyText
    ELSE IF Len(items) = 1 THEN items[1]
    ELSE Concat(Concat(items[1], sep), join(sep, Tail(items)))

\* items[:n]
Slice(items, n) == SubSeq(items, 1, IF Len(items) < n THEN Len(items) ELSE n)

\* bool(x) of a text or None
Truthy(t) == t # NULL /\ t.len > 0

\* bool(x) of a str or None
Set(s) == s # None /\ s # ""

(***************************************************************************)
(* Signature verification.  A body is any value; HMAC-SHA256 is a perfect  *)
(* keyed hash: the hex digest of (key, msg) is the pair itself, so two     *)
(* digests are equal exactly when key and message are.  A signature header *)
(* is << scheme prefix, hex digest >>, an absent header is NoHeader.       *)
(***************************************************************************)
NoHeader == << >>

Placeholder == "your_github_webhook_secret_here"

hexdigest(key, msg) == << key, msg >>

\* hmac.compare_digest(a, b)
compare_digest(a, b) == a = b

\* app.py verify_github_signature, with the module's GITHUB_WEBHOOK_SECRET
verify_github_signature(payload_body, signature_header) ==
    IF ~Set(GITHUB_WEBHOOK_SECRET) \/ GITHUB_WEBHOOK_SECRET = Placeholder
    THEN TRUE
    ELSE IF signature_header = NoHeader
    THEN FALSE
    ELSE LET expected_signature ==
                 << "sha256=", hexdigest(GITHUB_WEBHOOK_SECRET, payload_body) >>
         IN compare_digest(expected_signature, signature_header)

\* The outcome of a call: a returned value or a raised exception.
Return(v) == [raised |-> None, value |-> v]

Raise(e) == [raised |-> e]

Returned(r, v) == r.raised = None /\ r.value = v

\* services/github_service.py GitHubService.verify_webhook_signature.
\* None has no startswith: the call raises AttributeError.
verify_webhook_signature(payload, signature, secret) ==
    IF signature = NoHeader
    THEN Raise("AttributeError")
    ELSE IF signature[1] # "sha256="
    THEN Return(FALSE)
    ELSE IF secret = None
    THEN Raise("AttributeError")
    ELSE LET expected_signature == << "sha256=", hexdigest(secret, payload) >>
         IN Return(compare_digest(signature, expected_signature))

(***************************************************************************)
(* The verifiers on their own: a sender signs a body with its key, the     *)
(* delivery may be altered on its way, and both verifiers judge it.        *)
(***************************************************************************)
Keys == {"k1", "k2"}

Bodies == {"b1", "b2"}

Secrets == {None, "", Placeholder} \cup Keys

Schemes == {"sha256=", "sha1=", ""}

\* what GitHub sends in X-Hub-Signature-256 for a hook with secret key
Signature(key, body) == << "sha256=", hexdigest(key, body) >>

NoDelivery == [sent |-> FALSE]

NoVerdict == [judged |-> FALSE]

SigSend(key, body) ==
    /\ wire' = [sent |-> TRUE, body |-> body, header |-> Signature(key, body)]
    /\ verdict' = NoVerdict
    /\ UNCHANGED << configVars, restVars, reportVars, commitVars, postVars, xVars, ghVars >>

SigSendUnsigned(body) ==
    /\ wire' = [sent |-> TRUE, body |-> body, header |-> NoHeader]
    /\ verdict' = NoVerdict
    /\ UNCHANGED << configVars, restVars, reportVars, commitVars, postVars, xVars, ghVars >>

\* the body is replaced on the way, the header kept
SigAlterBody(body) ==
    /\ wire.sent /\ body # wire.body
    /\ wire' = [wire EXCEPT !.body = body]
    /\ verdict' = NoVerdict
    /\ UNCHANGED << configVars, restVars, reportVars, commitVars, postVars, xVars, ghVars >>

\* the scheme prefix of the header is replaced on the way, the digest kept
SigAlterScheme(scheme) ==
    /\ wire.sent /\ wire.header # NoHeader /\ scheme # wire.header[1]
    /\ wire' = [wire EXCEPT !.header = << scheme, wire.header[2] >>]
    /\ verdict' = NoVerdict
    /\ UNCHANGED << configVars, restVars, reportVars, commitVars, postVars, xVars, ghVars >>

\* both verifiers are applied to the delivery; GitHubService's verifier takes
\* the secret as an argument and is given the configured one
SigVerify ==
    /\ wire.sent
    /\ verdict' = [judged |-> TRUE,
                   app |-> verify_github_signature(wire.body, wire.header),
                   service |-> verify_webhook_signature(
                                   wire.body, wire.header, GITHUB_WEBHOOK_SECRET)]
    /\ wire' = wire
    /\ UNCHANGED << configVars, restVars, reportVars, commitVars, postVars, xVars, ghVars >>

(***************************************************************************)
(* Content generator (app.py PostGenerator).  A completion is what the     *)
(* chat.completions.create call does: it raises, or returns a response     *)
(* whose choices[0].message.content is a text or None.                     *)
(***************************************************************************)
CompletionLen == 120      \* length of an ordinary completion
LongLen == 300            \* length of a long text

Completions ==
    { [raises |-> TRUE],
      [raises |-> FALSE, content |-> NULL],
      [raises |-> FALSE, content |-> Value("completion", CompletionLen)],
      [raises |-> FALSE, content |-> Value("completion", LongLen)],
      [raises |-> FALSE,
       content |-> Concat(Blank(1), Concat(Value("completion", CompletionLen), Blank(2)))],
      [raises |-> FALSE, content |-> Blank(3)],
      [raises |-> FALSE, content |-> EmptyText] }

\* the part of a files_summary entry for one category: label + first 3 names
files_entry(label, files) == Concat(Lit(label), join(Lit(", "), Slice(files, 3)))

files_text_of(commit_data) ==
    LET files_summary ==
            (IF commit_data.added_files # << >>
             THEN << files_entry("Added: ", commit_data.added_files) >> ELSE << >>)
            \o (IF commit_data.modified_files # << >>
                THEN << files_entry("Modified: ", commit_data.modified_files) >> ELSE << >>)
            \o (IF commit_data.removed_files # << >>
                THEN << files_entry("Removed: ", commit_data.removed_files) >> ELSE << >>)
    IN IF files_summary # << >> THEN join(Lit("; "), files_summary)
       ELSE Lit("No file changes")

\* the fixed-format text of both fallback branches; "****" stands for the
\* four non-ASCII characters that follow the message in the source
fallback_post(commit_data) ==
    join(EmptyText,
         << Lit("Just shipped: "), commit_data.commit_message,
            Lit(" ****\n\nWorking on "), commit_data.repository_name,
            Lit(" - "), files_text_of(commit_data),
            Lit("\n\nWhat's everyone else building today?") >>)

\* generate_post without its except clause: the exception escapes
generate_post_no_except(client, commit_data, completion) ==
    IF client
    THEN IF completion.raises THEN Raise("APIError")
         ELSE IF completion.content = NULL THEN Raise("AttributeError")
         ELSE Return(strip(completion.content))
    ELSE Return(fallback_post(commit_data))

\* PostGenerator.generate_post; client is the module's openai_client
generate_post(client, commit_data, completion) ==
    IF client
    THEN IF completion.raises \/ completion.content = NULL
         THEN Return(fallback_post(commit_data))           \* except Exception
         ELSE Return(strip(completion.content))
    ELSE Return(fallback_post(commit_data))

(***************************************************************************)
(* Deliveries to POST /webhook/github.  The body of a delivery is its JSON *)
(* payload; commits are drawn from four kinds.                             *)
(***************************************************************************)
MessageLen == 40          \* length of an ordinary commit message
NameLen == 13             \* length of the repository name and of a file name

File == Value("file", NameLen)

\* one parent, every field, more than three added files
CommitPlain ==
    [id |-> "c1", message |-> Value("commit_message", MessageLen), timestamp |-> "t1",
     author |-> [name |-> "dev"], added |-> << File, File, File, File >>,
     modified |-> << File >>, removed |-> << >>, parents |-> << "p1" >>]

\* no 'parents' key, no files, a long message
CommitRoot ==
    [id |-> "c0", message |-> Value("commit_message", LongLen), timestamp |-> "t0",
     author |-> [name |-> "dev"], added |-> << >>,
     modified |-> << >>, removed |-> << >>]

\* a merge: two parents
CommitMerge ==
    [id |-> "c2", message |-> Value("commit_message", MessageLen), timestamp |-> "t2",
     author |-> [name |-> "dev"], added |-> << >>,
     modified |-> << File >>, removed |-> << >>, parents |-> << "p1", "p2" >>]

\* one parent, the 'author' field missing
CommitNoAuthor ==
    [id |-> "c3", message |-> Value("commit_message", MessageLen), timestamp |-> "t3",
     added |-> << >>, modified |-> << File >>, removed |-> << File >>,
     parents |-> << "p1" >>]

\* request.json: the payload a body parses to.  A body lists its commits by
\* kind; every other key is carried over.
CommitJson(kind) ==
    CASE kind = "plain" -> CommitPlain
      [] kind = "root" -> CommitRoot
      [] kind = "merge" -> CommitMerge
      [] kind = "noauthor" -> CommitNoAuthor

json(body) ==
    [k \in DOMAIN body |->
        IF k = "commits" THEN [i \in DOMAIN body.commits |-> CommitJson(body.commits[i])]
        ELSE IF k = "repository" THEN [name |-> Value("repository_name", NameLen)]
        ELSE body[k]]

(***************************************************************************)
(* Webhook handler (app.py github_webhook).  A JSON object is a record     *)
(* whose fields are the keys present; d[k] of an absent key is a KeyError. *)
(***************************************************************************)
Has(d, keys) == keys \subseteq DOMAIN d

\* dict.get(key, default)
Get(d, key, default) == IF key \in DOMAIN d THEN d[key] ELSE default

CommitKeys == {"author", "message", "timestamp", "added", "modified", "removed", "id"}

\* CommitData(...) as built by the handler from one commit of the payload
CommitDataOf(commit, payload) ==
    [author_name |-> commit.author.name,
     commit_message |-> commit.message,
     timestamp |-> commit.timestamp,
     added_files |-> commit.added,
     modified_files |-> commit.modified,
     removed_files |-> commit.removed,
     repository_name |-> payload.repository.name,
     branch |-> payload.ref,
     sha |-> commit.id]

\* DatabaseManager.save_post: the table with the new row (the columns copied
\* from the commit and never read again are left out of the row)
save_post(rows, commit_data, generated_post) ==
    Append(rows, [id |-> Len(rows) + 1,
                  commit_sha |-> commit_data.sha,
                  generated_post |-> generated_post,
                  edited_post |-> NULL,
                  status |-> "draft",
                  posted_at |-> None,
                  platform |-> "twitter"])

\* "Skip merge commits": the condition of the continue statement
is_merge_commit(commit) ==
    Get(commit, "parents", << >>) # << >> /\ Len(commit.parents) > 1

\* the for loop over payload['commits'] from commit i on; db_fails_at is the
\* commit at whose save_post the database raises (0: never)
RECURSIVE webhook_loop(_, _, _, _, _, _)
webhook_loop(payload, i, rows, client, completion, db_fails_at) ==
    IF i > Len(payload.commits) THEN [rows |-> rows, raised |-> None]
    ELSE LET commit == payload.commits[i] IN
        IF is_merge_commit(commit)
        THEN webhook_loop(payload, i + 1, rows, client, completion, db_fails_at)
        ELSE IF ~Has(commit, CommitKeys) \/ ~Has(payload, {"ref"})
        THEN [rows |-> rows, raised |-> "KeyError"]
        ELSE LET commit_data == CommitDataOf(commit, payload)
                 generated_post == generate_post(client, commit_data, completion)
             IN IF generated_post.raised # None
                THEN [rows |-> rows, raised |-> generated_post.raised]
                ELSE IF db_fails_at = i
                THEN [rows |-> rows, raised |-> "sqlite3.Error"]
                ELSE webhook_loop(payload, i + 1,
                                  save_post(rows, commit_data, generated_post.value),
                                  client, completion, db_fails_at)

\* the two gates before the payload is read: 401, "Event ignored", or go on
webhook_gate_no_event_check(delivery) ==
    IF ~verify_github_signature(delivery.body, delivery.header) THEN "401"
    ELSE "process"

webhook_gate(delivery) ==
    IF ~verify_github_signature(delivery.body, delivery.header) THEN "401"
    ELSE IF delivery.event # "push" THEN "ignored"
    ELSE "process"

NoResponse == [route |-> None]

Response(route, code, message) == [route |-> route, code |-> code, message |-> message]

\* github_webhook: the table and the response it leaves.  An exception that
\* escapes the view is answered 500 by Flask; rows saved before it stay.
webhook(delivery, rows, client, completion, db_fails_at) ==
    LET gate == webhook_gate(delivery)
        payload == json(delivery.body)
    IN IF gate = "401"
       THEN [rows |-> rows, response |-> Response("webhook", 401, "Invalid signature")]
       ELSE IF gate = "ignored"
       THEN [rows |-> rows, response |-> Response("webhook", 200, "Event ignored")]
       ELSE IF ~Has(payload, {"repository", "commits"})
       THEN [rows |-> rows, response |-> Response("webhook", 500, "KeyError")]
       ELSE LET done == webhook_loop(payload, 1, rows, client, completion, db_fails_at)
            IN IF done.raised # None
               THEN [rows |-> done.rows,
                     response |-> Response("webhook", 500, done.raised)]
               ELSE [rows |-> done.rows,
                     response |-> [route |-> "webhook", code |-> 200,
                                   message |-> "Processed N commits",
                                   N |-> Len(payload.commits)]]

(***************************************************************************)
(* The deliveries the model sends.                                         *)
(***************************************************************************)
CommitKinds == {"plain", "root", "merge", "noauthor"}

CommitLists == UNION { [1..n -> CommitKinds] : n \in 0..MaxCommits }

PushBody(commits) ==
    [repository |-> "repo", ref |-> "refs/heads/main", commits |-> commits]

\* the body of an event that is no push (a ping): no 'commits', no 'ref'
PingBody == [repository |-> "repo", zen |-> "z"]

WebhookBodies == {PushBody(c) : c \in CommitLists} \cup {PingBody}

Events == {"push", "ping"}

\* X-Hub-Signature-256 of a delivery: absent, or the signature some key
\* holder made for this body or for another body
HeadersFor(body) ==
    {NoHeader} \cup {Signature(k, b) : k \in Keys, b \in {body, PingBody}}

\* commits of a payload ('commits' may be absent)
CommitsOf(payload) == Get(payload, "commits", << >>)

\* what the completion API does during one delivery
WebhookCompletions ==
    { [raises |-> TRUE], [raises |-> FALSE, content |-> Value("completion", CompletionLen)] }

NoTweets == [called |-> FALSE]

NoGenerated == [called |-> FALSE]

NoRequest == [route |-> None]

\* a delivery is sent to the server
Deliver(body, event, header) ==
    /\ ~wire.sent
    /\ Len(posts) + Len(CommitsOf(body)) <= MaxPosts
    /\ wire' = [sent |-> TRUE, body |-> body, header |-> header, event |-> event]
    /\ response' = NoResponse
    /\ UNCHANGED << configVars, restVars, reportVars, commitVars, posts, tweets, generated, verdict, xVars, ghVars >>

\* app.py github_webhook, on the delivery that arrived
github_webhook(completion, db_fails_at) ==
    /\ wire.sent
    /\ LET out == webhook(wire, posts, openai_client, completion, db_fails_at)
       IN /\ posts' = out.rows
          /\ response' = out.response
    /\ wire' = NoDelivery
    /\ UNCHANGED << configVars, restVars, reportVars, commitVars, tweets, generated, verdict, xVars, ghVars >>

(***************************************************************************)
(* X OAuth routes (app.py).  The provider's answers are inputs: the token  *)
(* endpoint answers with a token response or an HTTP error, /2/users/me    *)
(* with a user or an HTTP error.                                           *)
(***************************************************************************)
StateTokens == {"st1", "st2"}       \* values of secrets.token_urlsafe(32)

XUsers == {"u1", "u2"}

AccessTokens == {"at1", "at2"}

\* XOAuthManager.get_authorization_url
get_authorization_url(state) ==
    IF ~Set(X_CLIENT_ID) THEN Raise("ValueError")
    ELSE Return([response_type |-> "code", client_id |-> X_CLIENT_ID,
                 state |-> IF Set(state) THEN state ELSE "default_state"])

\* GET /oauth/x/authorize: the state is stored before the URL is built
x_oauth_authorize(state) ==
    /\ session' = [session EXCEPT !.oauth_state = state]
    /\ LET auth_url == get_authorization_url(state)
       IN x_request' =
              IF auth_url.raised # None
              THEN [route |-> "authorize", redirect |-> "dashboard",
                    flash |-> "OAuth configuration error"]
              ELSE [route |-> "authorize", redirect |-> auth_url.value, flash |-> None]
    /\ UNCHANGED << configVars, restVars, reportVars, commitVars, sigVars, postVars, ghVars, oauth_tokens, x_exchanges >>

\* the state check of the callback accepts a request without a state too
state_matches_or_absent(state, sess) == state = None \/ state = sess.oauth_state

\* the condition under which x_oauth_callback goes on: not (state != stored)
state_matches(state, sess) == state = sess.oauth_state

\* save_oauth_token with a plain INSERT on a table without the UNIQUE clause
save_oauth_token_insert(rows, platform, user_id, access_token) ==
    rows \cup {[platform |-> platform, user_id |-> user_id, access_token |-> access_token]}

\* DatabaseManager.save_oauth_token: INSERT OR REPLACE under UNIQUE(platform, user_id)
save_oauth_token(rows, platform, user_id, access_token) ==
    {r \in rows : ~(r.platform = platform /\ r.user_id = user_id)}
        \cup {[platform |-> platform, user_id |-> user_id, access_token |-> access_token]}

\* DatabaseManager.delete_oauth_token
delete_oauth_token(rows, platform, user_id) ==
    {r \in rows : ~(r.platform = platform /\ r.user_id = user_id)}

XCallbackAnswer(state, code, flash) ==
    [route |-> "callback", state |-> state, code |-> code, flash |-> flash]

\* GET /oauth/x/callback?state=..&code=..; token is the token endpoint's
\* answer (an access token, or "HTTPError"), user the answer of /2/users/me
x_oauth_callback(state, code, token, user) ==
    /\ x_exchanges < MaxExchanges
    /\ IF ~state_matches(state, session)
       THEN /\ x_request' = XCallbackAnswer(state, code, "Invalid OAuth state")
            /\ UNCHANGED << session, oauth_tokens, x_exchanges >>
       ELSE IF ~Set(code)
       THEN /\ x_request' = XCallbackAnswer(state, code, "OAuth authorization failed")
            /\ UNCHANGED << session, oauth_tokens, x_exchanges >>
       ELSE /\ x_exchanges' = x_exchanges + 1        \* exchange_code_for_token(code)
            /\ IF ~Set(X_CLIENT_SECRET) \/ token = "HTTPError" \/ user = "HTTPError"
               THEN /\ x_request' = XCallbackAnswer(state, code, "OAuth callback failed")
                    /\ UNCHANGED << session, oauth_tokens >>
               ELSE /\ oauth_tokens' = save_oauth_token(oauth_tokens, "x", user, token)
                    /\ session' = [session EXCEPT !.oauth_state = None]
                    /\ x_request' = XCallbackAnswer(state, code, "Successfully connected")
    /\ UNCHANGED << configVars, restVars, reportVars, commitVars, sigVars, postVars, ghVars >>

\* GET /oauth/x/disconnect: the account of some row (SELECT ... LIMIT 1)
x_oauth_disconnect ==
    /\ IF {t \in oauth_tokens : t.platform = "x"} = {}
       THEN /\ x_request' = [route |-> "disconnect", flash |-> "No X account connected"]
            /\ oauth_tokens' = oauth_tokens
       ELSE \E r \in {t \in oauth_tokens : t.platform = "x"} :
            /\ oauth_tokens' = delete_oauth_token(oauth_tokens, "x", r.user_id)
            /\ x_request' = [route |-> "disconnect", user_id |-> r.user_id,
                             flash |-> "Successfully disconnected X account"]
    /\ UNCHANGED << configVars, restVars, reportVars, commitVars, sigVars, postVars, ghVars, session, x_exchanges >>

(***************************************************************************)
(* GitHub login (routes/auth.py).  The answers of github.com are inputs.   *)
(***************************************************************************)
GithubIds == {"g1", "g2"}

\* GET /auth/login: the authorization URL is built from the client id, the
\* scope and the redirect URI; the session is not touched
login ==
    /\ gh_request' =
           IF ~Set(GITHUB_CLIENT_ID)
           THEN [route |-> "login", redirect |-> "main.index",
                 flash |-> "GitHub OAuth not configured",
                 url |-> [client_id |-> None]]
           ELSE [route |-> "login", redirect |-> "github.com/login/oauth/authorize",
                 flash |-> None,
                 url |-> [client_id |-> GITHUB_CLIENT_ID, scope |-> "user:email,repo",
                          redirect_uri |-> "auth/callback"]]
    /\ UNCHANGED << configVars, restVars, reportVars, commitVars, sigVars, postVars, xVars, gh_session, users, gh_exchanges >>

GhCallbackAnswer(state, code, flash) ==
    [route |-> "callback", state |-> state, code |-> code, flash |-> flash]

\* the row of github_user is updated, or a new row is added
upsert_user(rows, github_id, access_token) ==
    {u \in rows : u.github_id # github_id}
        \cup {[github_id |-> github_id, access_token |-> access_token]}

\* GET /auth/callback?code=..&state=..: only 'code' is read.  token is the
\* answer of the token endpoint (a token, None for a 200 without one, or
\* "HTTPError"), github_user the answer of api.github.com/user
callback(state, code, token, github_user) ==
    /\ gh_exchanges < MaxExchanges
    /\ IF ~Set(code)
       THEN /\ gh_request' = GhCallbackAnswer(state, code, "Authorization failed")
            /\ UNCHANGED << gh_session, users, gh_exchanges >>
       ELSE /\ gh_exchanges' = gh_exchanges + 1
            /\ IF token = "HTTPError"
               THEN /\ gh_request' = GhCallbackAnswer(state, code, "Failed to obtain access token")
                    /\ UNCHANGED << gh_session, users >>
               ELSE IF ~Set(token)
               THEN /\ gh_request' = GhCallbackAnswer(state, code, "No access token received")
                    /\ UNCHANGED << gh_session, users >>
               ELSE IF github_user = "HTTPError"
               THEN /\ gh_request' = GhCallbackAnswer(state, code, "Failed to get user information")
                    /\ UNCHANGED << gh_session, users >>
               ELSE /\ users' = upsert_user(users, github_user, token)
                    /\ gh_session' = [gh_session EXCEPT !.user_id = github_user]
                    /\ gh_request' = GhCallbackAnswer(state, code, "Successfully logged in!")
    /\ UNCHANGED << configVars, restVars, reportVars, commitVars, sigVars, postVars, xVars >>

\* GET /auth/logout (login_required)
logout ==
    /\ gh_session.user_id # None
    /\ gh_session' = [gh_session EXCEPT !.user_id = None]
    /\ gh_request' = [route |-> "logout", flash |-> "You have been logged out"]
    /\ UNCHANGED << configVars, restVars, reportVars, commitVars, sigVars, postVars, xVars, users, gh_exchanges >>

(***************************************************************************)
(* Publishers.  A network call is recorded as [api, text, ok]; whether a   *)
(* call succeeds is an input.                                              *)
(***************************************************************************)
TweetLimit == 280         \* the character limit TwitterService compares with
KeepLen == 277            \* the characters TwitterService keeps of a long text

Min(a, b) == IF a < b THEN a ELSE b

\* content[:n]; a cut inside the non-blank part is taken to end non-blank
Prefix(t, n) ==
    IF t.len <= n THEN t
    ELSE [len |-> n,
          lead |-> Min(t.lead, n),
          trail |-> IF t.lead >= n THEN n
                    ELSE IF n > t.len - t.trail THEN n - (t.len - t.trail) ELSE 0,
          has |-> t.has]

\* what TwitterPoster.__init__ finds: tweepy importable, the four
\* credentials (missing, token = token secret, or usable), and whether
\* verify_credentials and tweepy.Client(...) succeed
PosterEnvs ==
    [tweepy : BOOLEAN, credentials : {"missing", "identical", "ok"},
     verify_credentials : BOOLEAN, v2_client : BOOLEAN]

\* TwitterPoster.__init__: the (client, api) it leaves
TwitterPoster__init__(env) ==
    IF ~(env.tweepy /\ env.credentials # "missing")
    THEN [client |-> FALSE, api |-> FALSE]
    ELSE IF env.credentials = "identical"
    THEN [client |-> FALSE, api |-> FALSE]
    ELSE IF ~env.verify_credentials
    THEN [client |-> FALSE, api |-> FALSE]
    ELSE [client |-> env.v2_client, api |-> TRUE]

Call(api, text, ok) == [api |-> api, text |-> text, ok |-> ok]

\* post_tweet without the return after a successful v2 call
post_tweet_no_return(poster, content, create_tweet_ok, update_status_ok) ==
    IF ~poster.client /\ ~poster.api
    THEN [calls |-> << >>, result |-> Return(FALSE)]
    ELSE LET v2 == IF poster.client
                   THEN << Call("create_tweet", content, create_tweet_ok) >> ELSE << >>
         IN IF poster.api
            THEN [calls |-> v2 \o << Call("update_status", content, update_status_ok) >>,
                  result |-> Return(update_status_ok)]
            ELSE [calls |-> v2, result |-> Return(poster.client /\ create_tweet_ok)]

\* TwitterPoster.post_tweet: the calls it makes and what it returns
post_tweet(poster, content, create_tweet_ok, update_status_ok) ==
    IF ~poster.client /\ ~poster.api
    THEN [calls |-> << >>, result |-> Return(FALSE)]
    ELSE LET v2 == IF poster.client
                   THEN << Call("create_tweet", content, create_tweet_ok) >> ELSE << >>
         IN IF poster.client /\ create_tweet_ok
            THEN [calls |-> v2, result |-> Return(TRUE)]
            ELSE IF poster.api
            THEN [calls |-> v2 \o << Call("update_status", content, update_status_ok) >>,
                  result |-> Return(update_status_ok)]
            ELSE [calls |-> v2, result |-> Return(FALSE)]

\* services/twitter_service.py TwitterService.post_tweet; client is whether
\* self.client exists, response_data whether the response carries data
TwitterService_post_tweet(client, content, create_tweet_ok, response_data) ==
    IF ~client THEN [calls |-> << >>, result |-> Return(NULL)]
    ELSE LET text == IF content.len > TweetLimit
                     THEN Concat(Prefix(content, KeepLen), Lit("..."))
                     ELSE content
         IN [calls |-> << Call("create_tweet", text, create_tweet_ok) >>,
             result |-> IF create_tweet_ok /\ response_data
                        THEN Return([text |-> text]) ELSE Return(NULL)]

\* the texts handed to a publisher
Contents ==
    { EmptyText, Value("content", 1), Value("content", CompletionLen),
      Value("content", KeepLen), Value("content", TweetLimit),
      Value("content", TweetLimit + 1), Value("content", LongLen),
      Concat(Value("content", LongLen), Blank(2)) }

\* twitter_poster.post_tweet(content) is called
PostTweet(content, create_tweet_ok, update_status_ok) ==
    /\ LET out == post_tweet(twitter_poster, content, create_tweet_ok, update_status_ok)
       IN tweets' = [called |-> TRUE, by |-> "TwitterPoster", content |-> content,
                     calls |-> out.calls, result |-> out.result]
    /\ UNCHANGED << configVars, restVars, reportVars, commitVars, sigVars, xVars, ghVars, posts, response, generated >>

\* TwitterService(...).post_tweet(content) is called
ServicePostTweet(client, content, create_tweet_ok, response_data) ==
    /\ LET out == TwitterService_post_tweet(client, content, create_tweet_ok, response_data)
       IN tweets' = [called |-> TRUE, by |-> "TwitterService", content |-> content,
                     calls |-> out.calls, result |-> out.result]
    /\ UNCHANGED << configVars, restVars, reportVars, commitVars, sigVars, xVars, ghVars, posts, response, generated >>

(***************************************************************************)
(* Review and publication of stored posts (app.py edit_post, publish_post).*)
(***************************************************************************)
Ids(rows) == {rows[i].id : i \in DOMAIN rows}

\* DatabaseManager.update_post: UPDATE posts SET edited_post, status WHERE id
update_post(rows, post_id, edited_post, status) ==
    [i \in DOMAIN rows |->
        IF rows[i].id = post_id
        THEN [rows[i] EXCEPT !.edited_post = edited_post, !.status = status]
        ELSE rows[i]]

\* mark_posted that sets the status and leaves posted_at alone
mark_posted_status_only(rows, post_id, platform) ==
    [i \in DOMAIN rows |->
        IF rows[i].id = post_id
        THEN [rows[i] EXCEPT !.status = "posted", !.platform = platform]
        ELSE rows[i]]

\* DatabaseManager.mark_posted: UPDATE posts SET status = 'posted',
\* posted_at = CURRENT_TIMESTAMP, platform WHERE id
mark_posted(rows, post_id, platform) ==
    [i \in DOMAIN rows |->
        IF rows[i].id = post_id
        THEN [rows[i] EXCEPT !.status = "posted", !.posted_at = "CURRENT_TIMESTAMP",
                             !.platform = platform]
        ELSE rows[i]]

\* next((p for p in posts if p['id'] == post_id), None), of a known id
get_post(rows, post_id) == CHOOSE r \in {rows[i] : i \in DOMAIN rows} : r.id = post_id

Flash(route, post_id, message) == [route |-> route, post_id |-> post_id, flash |-> message]

\* request.form.get("content") of a POST to the edit form (NULL: no field)
EditedContents == {NULL, EmptyText, Value("edited", CompletionLen)}

\* GET or POST /posts/<post_id>/edit
edit_post(post_id, method, edited_content) ==
    /\ IF post_id \notin Ids(posts)
       THEN /\ response' = Flash("edit", post_id, "Post not found")
            /\ posts' = posts
       ELSE IF method = "POST"
       THEN /\ posts' = update_post(posts, post_id, edited_content, "edited")
            /\ response' = Flash("edit", post_id, "Post updated successfully")
       ELSE /\ response' = [route |-> "edit", post_id |-> post_id,
                            template |-> "edit_post.html"]
            /\ posts' = posts
    /\ UNCHANGED << configVars, restVars, reportVars, commitVars, sigVars, xVars, ghVars, tweets, generated >>

\* post['edited_post'] or post['generated_post']
content_of(post) ==
    IF Truthy(post.edited_post) THEN post.edited_post ELSE post.generated_post

\* POST /posts/<post_id>/publish
publish_post(post_id, create_tweet_ok, update_status_ok) ==
    /\ IF post_id \notin Ids(posts)
       THEN /\ response' = Flash("publish", post_id, "Post not found")
            /\ UNCHANGED << posts, tweets >>
       ELSE LET content == content_of(get_post(posts, post_id))
                out == post_tweet(twitter_poster, content,
                                  create_tweet_ok, update_status_ok)
            IN /\ tweets' = [called |-> TRUE, by |-> "TwitterPoster",
                             content |-> content,
                             calls |-> out.calls, result |-> out.result]
               /\ IF out.result.value
                  THEN /\ posts' = mark_posted(posts, post_id, "twitter")
                       /\ response' = Flash("publish", post_id,
                                            "Post published successfully!")
                  ELSE /\ posts' = posts
                       /\ response' = Flash("publish", post_id, "Failed to publish post")
    /\ UNCHANGED << configVars, restVars, reportVars, commitVars, sigVars, xVars, ghVars, generated >>

(***************************************************************************)
(* Calls of generate_post on its own.                                      *)
(***************************************************************************)
FileLists == { << >>, << File >>, << File, File, File, File >> }

\* the CommitData values handed to the generator
CommitDatas ==
    [author_name : {"dev"},
     commit_message : {Value("commit_message", 1), Value("commit_message", MessageLen),
                       Value("commit_message", LongLen)},
     timestamp : {"t1"},
     added_files : FileLists, modified_files : FileLists, removed_files : {<< >>},
     repository_name : {Value("repository_name", NameLen)},
     branch : {"main"}, sha : {"c1"}]

\* post_generator.generate_post(commit_data) is called
GeneratePost(commit_data, completion) ==
    /\ generated' = [called |-> TRUE, client |-> openai_client,
                     commit_data |-> commit_data, completion |-> completion,
                     result |-> generate_post(openai_client, commit_data, completion)]
    /\ UNCHANGED << configVars, restVars, reportVars, commitVars, sigVars, xVars, ghVars, posts, response, tweets >>

(***************************************************************************)
(* Report parameters (services/coderabbit.py validate_report_parameters).  *)
(* A str is [chars |-> sequence of characters], JSON null is NULL; str     *)
(* values are compared as Python compares them, character by character.    *)
(***************************************************************************)
Str(chars) == [chars |-> chars]

Digits == <<"0", "1", "2", "3", "4", "5", "6", "7", "8", "9">>

IsDigit(c) == \E i \in DOMAIN Digits : Digits[i] = c

DigitValue(c) == (CHOOSE i \in DOMAIN Digits : Digits[i] = c) - 1

\* ord(c) of the characters that occur in the model's strings
Ord(c) ==
    CASE c = " " -> 32
      [] c = "-" -> 45
      [] c = "/" -> 47
      [] IsDigit(c) -> 48 + DigitValue(c)

AllDigits(cs) == \A i \in DOMAIN cs : IsDigit(cs[i])

\* int(cs) of a sequence of digits
RECURSIVE IntOf(_)
IntOf(cs) ==
    IF cs = << >> THEN 0
    ELSE 10 * IntOf(SubSeq(cs, 1, Len(cs) - 1)) + DigitValue(cs[Len(cs)])

\* a < b on str
RECURSIVE str_lt(_, _)
str_lt(a, b) ==
    IF b = << >> THEN FALSE
    ELSE IF a = << >> THEN TRUE
    ELSE IF Ord(a[1]) # Ord(b[1]) THEN Ord(a[1]) < Ord(b[1])
    ELSE str_lt(Tail(a), Tail(b))

\* a >= b on str
str_ge(a, b) == ~str_lt(a, b)

IsLeap(y) == (y % 4 = 0 /\ y % 100 # 0) \/ y % 400 = 0

DaysIn(y, m) ==
    IF m = 2 THEN (IF IsLeap(y) THEN 29 ELSE 28)
    ELSE IF m \in {4, 6, 9, 11} THEN 30 ELSE 31

\* the directives of the format: %Y is four digits, %m is 1..12 in one or
\* two digits, %d is 1..31 in one or two digits or a space and a digit
MatchesY(cs) == Len(cs) = 4 /\ AllDigits(cs)

MatchesM(cs) == Len(cs) \in {1, 2} /\ AllDigits(cs) /\ IntOf(cs) \in 1..12

MatchesD(cs) ==
    \/ Len(cs) \in {1, 2} /\ AllDigits(cs) /\ IntOf(cs) \in 1..31
    \/ Len(cs) = 2 /\ cs[1] = " " /\ IsDigit(cs[2]) /\ cs[2] # "0"

DayOf(cs) == IF cs[1] = " " THEN IntOf(Tail(cs)) ELSE IntOf(cs)

\* datetime.strptime(s, "%Y-%m-%d"): the date, or ValueError
strptime(cs) ==
    LET dashes == {i \in DOMAIN cs : cs[i] = "-"} IN
    IF Cardinality(dashes) # 2 THEN Raise("ValueError")
    ELSE LET i == CHOOSE k \in dashes : \A l \in dashes : k <= l
             j == CHOOSE k \in dashes : \A l \in dashes : l <= k
             Y == SubSeq(cs, 1, i - 1)
             m == SubSeq(cs, i + 1, j - 1)
             d == SubSeq(cs, j + 1, Len(cs))
         IN IF ~(MatchesY(Y) /\ MatchesM(m) /\ MatchesD(d)) THEN Raise("ValueError")
            ELSE IF DayOf(d) > DaysIn(IntOf(Y), IntOf(m)) THEN Raise("ValueError")
            ELSE Return([year |-> IntOf(Y), month |-> IntOf(m), day |-> DayOf(d)])

\* bool(v) of a str or None
NonEmpty(v) == v # NULL /\ v.chars # << >>

\* a or b
Or(a, b) == IF NonEmpty(a) THEN a ELSE b

OptionalKeys ==
    {"scheduleRange", "prompt", "promptTemplate", "parameters", "groupBy",
     "subgroupBy", "orgId"}

Invalid(message) == [is_valid |-> FALSE, error |-> message, params |-> NULL]

\* validate_report_parameters: (is_valid, error message, validated params)
validate_report_parameters(data) ==
    LET from_date == Or(Get(data, "from", NULL), Get(data, "from_date", NULL))
        to_date == Or(Get(data, "to", NULL), Get(data, "to_date", NULL))
    IN IF ~NonEmpty(from_date) \/ ~NonEmpty(to_date)
       THEN Invalid("from/from_date and to/to_date are required")
       ELSE IF strptime(from_date.chars).raised # None \/ strptime(to_date.chars).raised # None
       THEN Invalid("Invalid date format. Use YYYY-MM-DD")
       ELSE IF str_ge(from_date.chars, to_date.chars)
       THEN Invalid("from_date must be before to_date")
       ELSE [is_valid |-> TRUE, error |-> None,
             params |-> [from_date |-> from_date, to_date |-> to_date,
                         organization |-> Get(data, "organization", Str(<<"d", "e", "f", "a", "u", "l", "t">>)),
                         optional_params |->
                             [k \in {o \in DOMAIN data \cap OptionalKeys : data[o] # NULL}
                                 |-> data[k]]]]

\* "YYYY-MM-DD" texts as a client writes them
Ymd(y, sep, m, d) == Str(y \o << sep >> \o m \o << sep >> \o d)

Y2024 == <<"2", "0", "2", "4">>

\* values of a date field: well formed, unpadded, impossible, other formats
DateValues ==
    { Ymd(Y2024, "-", <<"0", "5">>, <<"0", "1">>),
      Ymd(Y2024, "-", <<"0", "5">>, <<"1", "5">>),
      Ymd(Y2024, "-", <<"9">>, <<"0", "1">>),
      Ymd(Y2024, "-", <<"1", "0">>, <<"0", "1">>),
      Ymd(Y2024, "-", <<"0", "2">>, <<"3", "0">>),
      Ymd(Y2024, "-", <<"1", "3">>, <<"0", "1">>),
      Ymd(Y2024, "-", <<"0", "5">>, <<" ", "1">>),
      Ymd(<<"0", "5">>, "/", <<"0", "1">>, Y2024),
      Str(<< >>), NULL }

\* request bodies: the dates under 'from'/'to' or 'from_date'/'to_date',
\* with or without a custom prompt
ReportRequests ==
    {[from |-> f, to |-> t] : f \in DateValues, t \in DateValues}
        \cup {[from_date |-> f, to_date |-> t] : f \in DateValues, t \in DateValues}
        \cup {[from |-> f, to_date |-> t, prompt |-> pr] :
                 f \in DateValues, t \in DateValues, pr \in {NULL, Str(<<"p">>)}}
        \cup {[from_date |-> f] : f \in DateValues}

\* validate_report_parameters(data) is called
Validate(data) ==
    /\ validated' = [called |-> TRUE, data |-> data,
                     result |-> validate_report_parameters(data)]
    /\ UNCHANGED << configVars, restVars, commitVars, sigVars, postVars, xVars, ghVars,
                    crabbit, coderabbit_reports, cr_tasks, cr_handler, cr_response,
                    reports, report_metrics, rp_response, review_calls >>

(***************************************************************************)
(* Review-API client (services/coderabbit.py).  What open('crprompt.md')   *)
(* and requests.post do are inputs.                                        *)
(***************************************************************************)
\* crprompt.md: readable with or without text, missing, or unreadable
PromptFiles ==
    { [raises |-> None, text |-> Str(<<"p">>)], [raises |-> None, text |-> Str(<< >>)],
      [raises |-> "FileNotFoundError"], [raises |-> "PermissionError"] }

\* requests.post: an exception, or a response with its status code, whether
\* its content type is JSON and whether its body parses as JSON
\* a JSON object with these keys
JsonObject(keys) == [kind |-> "object", keys |-> keys]

\* a JSON array holding these strings and, when others, further elements
JsonArray(strings, others) == [kind |-> "array", strings |-> strings, others |-> others]

\* not value, for a parsed JSON value
Falsy(value) ==
    IF value.kind = "object" THEN value.keys = {}
    ELSE value.strings = {} /\ ~value.others

HttpOutcomes ==
    { [raises |-> "Timeout"], [raises |-> "ConnectionError"],
      [raises |-> "RequestException"] }
    \cup [raises : {None}, status_code : {200, 404, 500},
          json_content_type : BOOLEAN, parses : BOOLEAN,
          json : {JsonObject({"total_reviews"})}]

\* keyword arguments of generate_coderabbit_report
ReportKwargs == { << >>, [prompt |-> NULL], [prompt |-> Str(<<"c">>)] }

\* _load_default_prompt: only FileNotFoundError is caught
load_default_prompt(file) ==
    IF file.raises = "FileNotFoundError" THEN Return(Str(<< >>))
    ELSE IF file.raises # None THEN Raise(file.raises)
    ELSE Return(file.text)

ErrorResult(message) == [status |-> "error", error |-> message]

\* generate_coderabbit_report: the value it returns or the exception that
\* escapes it.  response.json() of an unparsable body raises
\* requests.exceptions.JSONDecodeError, a RequestException.
generate_coderabbit_report(api_key, from_date, to_date, kwargs, file, http) ==
    IF ~Set(api_key) THEN Return(ErrorResult("CODERABBIT_API_KEY not configured"))
    ELSE IF Get(kwargs, "prompt", NULL) = NULL /\ load_default_prompt(file).raised # None
    THEN Raise(load_default_prompt(file).raised)
    ELSE IF http.raises = "Timeout"
    THEN Return(ErrorResult("Request to CodeRabbit timed out"))
    ELSE IF http.raises = "ConnectionError"
    THEN Return(ErrorResult("Failed to connect to CodeRabbit"))
    ELSE IF http.raises # None
    THEN Return(ErrorResult("Request failed"))
    ELSE IF http.status_code = 200
    THEN IF http.parses
         THEN Return([status |-> "success", data |-> http.json])
         ELSE Return(ErrorResult("Request failed"))
    ELSE IF http.json_content_type /\ ~http.parses
    THEN Return(ErrorResult("Request failed"))
    ELSE Return([status |-> "error", error |-> "CodeRabbit API error",
                 details |-> "error_data"])

May01 == Ymd(Y2024, "-", <<"0", "5">>, <<"0", "1">>)

May15 == Ymd(Y2024, "-", <<"0", "5">>, <<"1", "5">>)

\* generate_coderabbit_report(from_date, to_date, **kwargs) is called
GenerateCoderabbitReport(api_key, kwargs, file, http) ==
    /\ crabbit' = [called |-> TRUE, api_key |-> api_key, kwargs |-> kwargs,
                   file |-> file, http |-> http,
                   result |-> generate_coderabbit_report(api_key, May01, May15,
                                                         kwargs, file, http)]
    /\ UNCHANGED << configVars, restVars, commitVars, sigVars, postVars, xVars, ghVars,
                    validated, coderabbit_reports, cr_tasks, cr_handler, cr_response,
                    reports, report_metrics, rp_response, review_calls >>

(***************************************************************************)
(* Asynchronous report pipeline (app.py): table coderabbit_reports, the    *)
(* handler of POST /api/coderabbit/analyze and its background thread.      *)
(* The handler is cut where another thread can run: after the INSERT is    *)
(* committed, after thread.start(), and at its return.                     *)
(***************************************************************************)
\* create_coderabbit_request whose INSERT is not committed when it returns
create_coderabbit_request_uncommitted(table, from_date, to_date, request_id) ==
    table

\* DatabaseManager.create_coderabbit_request: the table after the committed INSERT
create_coderabbit_request(table, from_date, to_date, request_id) ==
    Append(table, [id |-> Len(table) + 1, from_date |-> from_date, to_date |-> to_date,
                   status |-> "pending", request_id |-> request_id,
                   report_data |-> NULL, error_message |-> None, completed_at |-> None])

\* cursor.lastrowid of the INSERT
lastrowid(table) == Len(table)

\* cursor.rowcount > 0 of an UPDATE ... WHERE id = ?
rowcount_positive(table, report_id) == \E i \in DOMAIN table : table[i].id = report_id

\* update_coderabbit_report whose UPDATE has no WHERE clause
update_coderabbit_report_every_row(table, report_id, report_data) ==
    [i \in DOMAIN table |->
        [table[i] EXCEPT !.status = "completed", !.report_data = report_data,
                         !.completed_at = "now"]]

\* DatabaseManager.update_coderabbit_report with the default status
update_coderabbit_report(table, report_id, report_data) ==
    [i \in DOMAIN table |->
        IF table[i].id = report_id
        THEN [table[i] EXCEPT !.status = "completed", !.report_data = report_data,
                              !.completed_at = "now"]
        ELSE table[i]]

\* update_coderabbit_report_error whose UPDATE matches no row
update_coderabbit_report_error_unmatched(table, report_id, error_message) ==
    table

\* update_coderabbit_report_error that drops the message
update_coderabbit_report_error_no_message(table, report_id, error_message) ==
    [i \in DOMAIN table |->
        IF table[i].id = report_id
        THEN [table[i] EXCEPT !.status = "error", !.completed_at = "now"]
        ELSE table[i]]

\* DatabaseManager.update_coderabbit_report_error
update_coderabbit_report_error(table, report_id, error_message) ==
    [i \in DOMAIN table |->
        IF table[i].id = report_id
        THEN [table[i] EXCEPT !.status = "error", !.error_message = error_message,
                              !.completed_at = "now"]
        ELSE table[i]]

\* DatabaseManager.save_coderabbit_report (legacy): a row stored as completed
save_coderabbit_report(table, report_data) ==
    Append(table, [id |-> Len(table) + 1, from_date |-> Str(<< >>), to_date |-> Str(<< >>),
                   status |-> "completed", request_id |-> None,
                   report_data |-> report_data, error_message |-> None,
                   completed_at |-> "now"])

Oct01 == Ymd(Y2024, "-", <<"1", "0">>, <<"0", "1">>)

Sep1 == Ymd(Y2024, "-", <<"9">>, <<"0", "1">>)

\* JSON bodies of a report request
AnalyzeRequests ==
    { [from_date |-> May01, to_date |-> May15],
      [from_date |-> May15, to_date |-> May01],
      [from_date |-> Oct01, to_date |-> Sep1],
      [from_date |-> May01, to_date |-> Ymd(Y2024, "/", <<"0", "5">>, <<"1", "5">>)],
      [from_date |-> May01],
      [from |-> May01, to |-> May15],
      [from |-> May15, to |-> May01] }

\* JSON bodies of POST /reports/generate
GenerateRequests ==
    AnalyzeRequests
        \cup { << >>, [from |-> May01, to_date |-> May15, organization |-> Str(<<"o">>)],
               [from |-> Oct01, to |-> Sep1], [from |-> Sep1, to |-> Oct01] }

\* validate_report_parameters(data) of every request body
validation == [data \in GenerateRequests |-> validate_report_parameters(data)]

\* what the review API and crprompt.md do during one background call
Http(status_code, body) ==
    [raises |-> None, status_code |-> status_code, json_content_type |-> TRUE,
     parses |-> TRUE, json |-> body]

CrabbitCases ==
    { [api_key |-> None, file |-> [raises |-> "FileNotFoundError"],
       http |-> [raises |-> "Timeout"]],
      [api_key |-> "cr-key", file |-> [raises |-> "PermissionError"],
       http |-> [raises |-> "Timeout"]],
      [api_key |-> "cr-key", file |-> [raises |-> "FileNotFoundError"],
       http |-> [raises |-> "ConnectionError"]],
      [api_key |-> "cr-key", file |-> [raises |-> "FileNotFoundError"],
       http |-> Http(500, JsonObject({"message"}))] }
    \cup { [api_key |-> "cr-key", file |-> [raises |-> "FileNotFoundError"],
            http |-> Http(200, body)] :
            body \in { JsonObject({"total_reviews", "total_comments", "metadata", "score"}),
                       JsonObject({"total_reviews"}), JsonObject({}),
                       JsonArray({}, TRUE), JsonArray({"total_reviews"}, FALSE) } }

Answer(route, code, body) == [route |-> route, code |-> code, body |-> body]

HandlerIdle == [pc |-> "idle"]

\* api_coderabbit_analyze up to the committed INSERT, or up to its 400 answer
AnalyzeCreate(data) ==
    /\ cr_handler.pc = "idle"
    /\ Len(coderabbit_reports) < MaxReports
    /\ LET from_date == Get(data, "from_date", NULL)
           to_date == Get(data, "to_date", NULL)
           v == validation[data]
       IN IF ~NonEmpty(from_date) \/ ~NonEmpty(to_date)
          THEN /\ cr_response' = Answer("analyze", 400,
                       [request |-> data, error |-> "Missing required parameters"])
               /\ UNCHANGED << coderabbit_reports, cr_handler >>
          ELSE IF ~v.is_valid
          THEN /\ cr_response' = Answer("analyze", 400,
                       [request |-> data, error |-> v.error])
               /\ UNCHANGED << coderabbit_reports, cr_handler >>
          ELSE /\ coderabbit_reports' =
                       create_coderabbit_request(coderabbit_reports, from_date, to_date, "uuid")
               /\ cr_handler' = [pc |-> "created", data |-> data, params |-> v.params,
                                 report_id |-> lastrowid(coderabbit_reports')]
               /\ cr_response' = NoResponse
    /\ UNCHANGED << configVars, restVars, commitVars, sigVars, postVars, xVars, ghVars,
                    validated, crabbit, cr_tasks, reports, report_metrics, rp_response,
                    review_calls >>

\* thread.start(): generate_report_async exists from now on
AnalyzeSpawn ==
    /\ cr_handler.pc = "created"
    /\ cr_tasks' = cr_tasks \cup {[report_id |-> cr_handler.report_id, phase |-> "started"]}
    /\ cr_handler' = [cr_handler EXCEPT !.pc = "spawned"]
    /\ UNCHANGED << configVars, restVars, commitVars, sigVars, postVars, xVars, ghVars,
                    validated, crabbit, coderabbit_reports, cr_response, reports,
                    report_metrics, rp_response, review_calls >>

\* return jsonify({... "report_id": report_id, "status": "pending" ...})
AnalyzeRespond ==
    /\ cr_handler.pc = "spawned"
    /\ cr_response' = Answer("analyze", 200,
                             [request |-> cr_handler.data,
                              report_id |-> cr_handler.report_id, status |-> "pending"])
    /\ cr_handler' = HandlerIdle
    /\ UNCHANGED << configVars, restVars, commitVars, sigVars, postVars, xVars, ghVars,
                    validated, crabbit, coderabbit_reports, cr_tasks, reports,
                    report_metrics, rp_response, review_calls >>

\* the background thread started for a report, if any
TaskOf(report_id) ==
    IF \E t \in cr_tasks : t.report_id = report_id
    THEN CHOOSE t \in cr_tasks : t.report_id = report_id
    ELSE [report_id |-> report_id, phase |-> "none"]

\* generate_report_async: the call of generate_coderabbit_report
TaskCall(t, env) ==
    /\ t.phase = "started"
    /\ cr_tasks' = (cr_tasks \ {t}) \cup
           {[report_id |-> t.report_id, phase |-> "called",
             result |-> generate_coderabbit_report(env.api_key, May01, May15, << >>,
                                                   env.file, env.http)]}
    /\ review_calls' = review_calls + 1
    /\ UNCHANGED << configVars, restVars, commitVars, sigVars, postVars, xVars, ghVars,
                    validated, crabbit, coderabbit_reports, cr_handler, cr_response,
                    reports, report_metrics, rp_response >>

\* generate_report_async: the UPDATE that follows the call
TaskUpdate(t) ==
    /\ t.phase = "called"
    /\ coderabbit_reports' =
           IF t.result.raised # None
           THEN update_coderabbit_report_error(coderabbit_reports, t.report_id,
                                               t.result.raised)
           ELSE IF t.result.value.status = "error"
           THEN update_coderabbit_report_error(coderabbit_reports, t.report_id,
                                               t.result.value.error)
           ELSE IF t.result.value.data.kind = "array"
           THEN update_coderabbit_report_error(coderabbit_reports, t.report_id,
                                               "AttributeError")
           ELSE update_coderabbit_report(coderabbit_reports, t.report_id,
                                         JsonObject({"summary", "raw_data"}))
    /\ cr_tasks' = (cr_tasks \ {t}) \cup
           {[report_id |-> t.report_id, phase |-> "done",
             updated |-> rowcount_positive(coderabbit_reports, t.report_id)]}
    /\ UNCHANGED << configVars, restVars, commitVars, sigVars, postVars, xVars, ghVars,
                    validated, crabbit, cr_handler, cr_response, reports,
                    report_metrics, rp_response, review_calls >>

\* api_coderabbit_save_report: POST /api/coderabbit/reports
SaveReport ==
    /\ Len(coderabbit_reports) < MaxReports
    /\ coderabbit_reports' = save_coderabbit_report(coderabbit_reports, JsonObject({"summary"}))
    /\ UNCHANGED << configVars, restVars, commitVars, sigVars, postVars, xVars, ghVars,
                    validated, crabbit, cr_tasks, cr_handler, cr_response, reports,
                    report_metrics, rp_response, review_calls >>

\* api_coderabbit_report_status: GET /api/coderabbit/reports/<id>/status
ReportStatus(report_id) ==
    /\ cr_response' =
           IF rowcount_positive(coderabbit_reports, report_id)
           THEN LET report == coderabbit_reports[report_id]
                IN Answer("status", 200,
                          [id |-> report.id, status |-> report.status,
                           error_message |-> IF report.status = "error"
                                             THEN report.error_message ELSE None])
           ELSE Answer("status", 404, [error |-> "Report not found"])
    /\ UNCHANGED << configVars, restVars, commitVars, sigVars, postVars, xVars, ghVars,
                    validated, crabbit, coderabbit_reports, cr_tasks, cr_handler,
                    reports, report_metrics, rp_response, review_calls >>

(***************************************************************************)
(* Synchronous report route (routes/reports.py) over tables reports and    *)
(* report_metrics (database/db.py).                                        *)
(***************************************************************************)
\* save_report_to_db that leaves the status to the column default
save_report_to_db_default_status(table, organization, from_date, to_date, report_data, status, error_message) ==
    Append(table, [id |-> Len(table) + 1, organization |-> organization,
                   from_date |-> from_date, to_date |-> to_date, status |-> "pending",
                   report_data |-> IF report_data # NULL /\ ~Falsy(report_data)
                                   THEN report_data ELSE NULL,
                   error_message |-> error_message])

\* save_report_to_db that closes the connection without a commit
save_report_to_db_uncommitted(table, organization, from_date, to_date, report_data, status, error_message) ==
    table

\* save_report_to_db: the table after the committed INSERT
save_report_to_db(table, organization, from_date, to_date, report_data, status, error_message) ==
    Append(table, [id |-> Len(table) + 1, organization |-> organization,
                   from_date |-> from_date, to_date |-> to_date, status |-> status,
                   report_data |-> IF report_data # NULL /\ ~Falsy(report_data)
                                   THEN report_data ELSE NULL,
                   error_message |-> error_message])

metrics_to_extract ==
    << "total_reviews", "total_comments", "review_coverage", "avg_review_time",
       "total_files_reviewed", "total_pull_requests" >>

\* metric_name in report_data
Contains(report_data, name) ==
    IF report_data.kind = "object" THEN name \in report_data.keys
    ELSE name \in report_data.strings

\* the rows of one metric name, inserted twice
metric_rows_twice(report_id, report_data, names) ==
    LET F[i \in 0..Len(names)] ==
            IF i = 0 THEN << >>
            ELSE IF Contains(report_data, names[i])
            THEN F[i - 1] \o << [report_id |-> report_id, metric_name |-> names[i]],
                               [report_id |-> report_id, metric_name |-> names[i]] >>
            ELSE F[i - 1]
    IN F[Len(names)]

\* the rows the loops of parse_and_store_metrics insert, in order
metric_rows(report_id, report_data, names) ==
    LET F[i \in 0..Len(names)] ==
            IF i = 0 THEN << >>
            ELSE IF Contains(report_data, names[i])
            THEN Append(F[i - 1], [report_id |-> report_id, metric_name |-> names[i]])
            ELSE F[i - 1]
    IN F[Len(names)]

\* parse_and_store_metrics: the table it leaves, or the exception it raises
\* before its commit.  report_data[metric_name] of a list raises TypeError.
parse_and_store_metrics(table, report_id, report_data) ==
    IF Falsy(report_data) THEN Return(table)
    ELSE IF report_data.kind = "array"
            /\ \E i \in DOMAIN metrics_to_extract :
                  Contains(report_data, metrics_to_extract[i])
    THEN Raise("TypeError")
    ELSE Return(table \o metric_rows(report_id, report_data,
                                     Append(metrics_to_extract, "metadata")))

\* get_report_by_id: the row with its metrics, or NULL
get_report_by_id(table, metrics, report_id) ==
    IF \E i \in DOMAIN table : table[i].id = report_id
    THEN LET report == CHOOSE r \in {table[i] : i \in DOMAIN table} : r.id = report_id
         IN [report |-> report,
             metrics |-> SelectSeq(metrics, LAMBDA row : row.report_id = report_id)]
    ELSE NULL

\* generate_report: POST /reports/generate
GenerateReport(data, env) ==
    /\ Len(reports) < MaxReports
    /\ review_calls < MaxReports
    /\ LET v == validation[data]
           params == v.params
           result == generate_coderabbit_report(env.api_key, params.from_date,
                         params.to_date, params.optional_params, env.file, env.http)
           saved(report_data, status, error_message) ==
               save_report_to_db(reports, params.organization, params.from_date,
                                 params.to_date, report_data, status, error_message)
           stored == parse_and_store_metrics(report_metrics, Len(reports) + 1,
                                             result.value.data)
       IN IF data = << >>
          THEN /\ rp_response' = Answer("generate", 400,
                       [request |-> data, error |-> "JSON payload is required"])
               /\ UNCHANGED << reports, report_metrics, review_calls >>
          ELSE IF ~v.is_valid
          THEN /\ rp_response' = Answer("generate", 400,
                       [request |-> data, error |-> v.error])
               /\ UNCHANGED << reports, report_metrics, review_calls >>
          ELSE /\ review_calls' = review_calls + 1
               /\ IF result.raised # None
                  THEN /\ rp_response' = Answer("generate", 500,
                               [request |-> data, error |-> "Unexpected error"])
                       /\ UNCHANGED << reports, report_metrics >>
                  ELSE IF result.value.status = "error"
                  THEN /\ reports' = saved(NULL, "failed", result.value.error)
                       /\ rp_response' = Answer("generate", 500,
                               [request |-> data, report_id |-> Len(reports'),
                                status |-> "failed", error |-> result.value.error])
                       /\ UNCHANGED report_metrics
                  ELSE /\ reports' = saved(result.value.data, "completed", None)
                       /\ IF stored.raised # None
                          THEN /\ rp_response' = Answer("generate", 500,
                                       [request |-> data, error |-> "Unexpected error"])
                               /\ UNCHANGED report_metrics
                          ELSE /\ report_metrics' = stored.value
                               /\ rp_response' = Answer("generate", 201,
                                       [request |-> data, report_id |-> Len(reports'),
                                        status |-> "completed"])
    /\ UNCHANGED << configVars, restVars, commitVars, sigVars, postVars, xVars, ghVars,
                    validated, crabbit, coderabbit_reports, cr_tasks, cr_handler,
                    cr_response >>

\* get_report: GET /reports/<id>
GetReport(report_id) ==
    /\ rp_response' =
           LET report == get_report_by_id(reports, report_metrics, report_id)
           IN IF report = NULL
              THEN Answer("get_report", 404, [error |-> "Report not found"])
              ELSE Answer("get_report", 200, report)
    /\ UNCHANGED << configVars, restVars, commitVars, sigVars, postVars, xVars, ghVars,
                    validated, crabbit, coderabbit_reports, cr_tasks, cr_handler,
                    cr_response, reports, report_metrics, review_calls >>

(***************************************************************************)
(* Commit ingestion (services/github_service.py) into table commits        *)
(* (models/commit.py).  The session flushes pending rows before each       *)
(* query, so a query sees the rows added earlier in the same call; an      *)
(* exception leaves the table as it was before the call.                   *)
(***************************************************************************)
ShaPool == {"sha1", "sha2"}

\* rows of table repositories: two that post and one that does not
Repositories ==
    { [id |-> 1, github_id |-> "gh1", auto_post_enabled |-> TRUE],
      [id |-> 2, github_id |-> "gh2", auto_post_enabled |-> TRUE],
      [id |-> 3, github_id |-> "gh3", auto_post_enabled |-> FALSE] }

\* a commit of a push payload, with or without its list of added files
PayloadCommits == [id : ShaPool] \cup [id : {"sha1"}, added : {<<"f">>}]

RECURSIVE SeqsUpTo(_, _)
SeqsUpTo(S, n) ==
    IF n = 0 THEN {<< >>}
    ELSE LET shorter == SeqsUpTo(S, n - 1)
         IN shorter \cup {Append(q, x) : q \in {r \in shorter : Len(r) = n - 1}, x \in S}

Payloads ==
    { [ref_type |-> "branch", repository |-> [id |-> g], commits |-> cs] :
          g \in {"gh1", "gh2", "gh3", "gh9"}, cs \in SeqsUpTo(PayloadCommits, MaxCommits) }
    \cup { [repository |-> [id |-> "gh1"], commits |-> cs] :
              cs \in SeqsUpTo(PayloadCommits, 1) }

\* Commit.query.filter_by(github_id=..., repository_id=...).first() is not None
existing_commit(view, github_id, repository_id) ==
    \E i \in DOMAIN view :
        view[i].github_id = github_id /\ view[i].repository_id = repository_id

\* the INSERT of a flush on a table without the unique index on github_id
flush_insert_not_unique(view, row) ==
    IF row.additions = "list" THEN Raise("StatementError")
    ELSE Return(Append(view, row))

\* the INSERT of a flush: additions is an Integer column, github_id is unique
flush_insert(view, row) ==
    IF row.additions = "list" THEN Raise("StatementError")
    ELSE IF \E i \in DOMAIN view : view[i].github_id = row.github_id
    THEN Raise("IntegrityError")
    ELSE Return(Append(view, row))

\* the loop over the commits of a payload or of a listing: the rows the
\* session holds after it, or the exception of a flush
RECURSIVE add_commits(_, _, _)
add_commits(view, rows, repository_id) ==
    IF rows = << >> THEN Return(view)
    ELSE IF existing_commit(view, Head(rows).github_id, repository_id)
    THEN add_commits(view, Tail(rows), repository_id)
    ELSE LET flushed == flush_insert(view, Head(rows))
         IN IF flushed.raised # None THEN flushed
            ELSE add_commits(flushed.value, Tail(rows), repository_id)

\* Commit(...) of process_webhook_payload for one commit of the payload
PayloadRow(commit_data, repository_id) ==
    [github_id |-> commit_data.id, repository_id |-> repository_id,
     additions |-> IF "added" \in DOMAIN commit_data THEN "list" ELSE "int"]

\* Commit(...) of sync_repository_commits for one commit of the listing
ListingRow(sha, repository_id) ==
    [github_id |-> sha, repository_id |-> repository_id, additions |-> "int"]

\* Repository.query.filter_by(github_id=...).first()
repository_of(github_id) ==
    IF \E r \in Repositories : r.github_id = github_id
    THEN CHOOSE r \in Repositories : r.github_id = github_id
    ELSE NULL

\* process_webhook_payload: the table it leaves and the value it returns
process_webhook_payload(table, payload) ==
    LET repository == repository_of(payload.repository.id)
        added == add_commits(table,
                     [i \in DOMAIN payload.commits |->
                         PayloadRow(payload.commits[i], repository.id)],
                     repository.id)
    IN IF Get(payload, "ref_type", None) # "branch" THEN [table |-> table, result |-> Return(FALSE)]
       ELSE IF payload.commits = << >> THEN [table |-> table, result |-> Return(FALSE)]
       ELSE IF repository = NULL THEN [table |-> table, result |-> Return(FALSE)]
       ELSE IF ~repository.auto_post_enabled THEN [table |-> table, result |-> Return(FALSE)]
       ELSE IF added.raised # None THEN [table |-> table, result |-> Return(FALSE)]
       ELSE [table |-> added.value, result |-> Return(TRUE)]

\* sync_repository_commits: the table it leaves, and the number of new
\* commits it returns or the exception that escapes it
sync_repository_commits(table, repository, shas) ==
    LET added == add_commits(table,
                     [i \in DOMAIN shas |-> ListingRow(shas[i], repository.id)],
                     repository.id)
    IN IF ~repository.auto_post_enabled THEN [table |-> table, result |-> Return(0)]
       ELSE IF added.raised # None THEN [table |-> table, result |-> added]
       ELSE [table |-> added.value,
             result |-> Return(Len(added.value) - Len(table))]

\* GitHubService.process_webhook_payload(payload) is called
ProcessWebhookPayload(payload) ==
    /\ commit_table' = process_webhook_payload(commit_table, payload).table
    /\ ingested' = [called |-> TRUE, op |-> "process_webhook_payload",
                    input |-> payload, before |-> commit_table,
                    result |-> process_webhook_payload(commit_table, payload).result]
    /\ UNCHANGED << configVars, restVars, reportVars, sigVars, postVars, xVars, ghVars >>

\* GitHubService.sync_repository_commits(repository) is called and GitHub
\* lists these commits
SyncRepositoryCommits(repository, shas) ==
    /\ commit_table' = sync_repository_commits(commit_table, repository, shas).table
    /\ ingested' = [called |-> TRUE, op |-> "sync_repository_commits",
                    input |-> [repository |-> repository, shas |-> shas],
                    before |-> commit_table,
                    result |-> sync_repository_commits(commit_table, repository, shas).result]
    /\ UNCHANGED << configVars, restVars, reportVars, sigVars, postVars, xVars, ghVars >>

(***************************************************************************)
(* The login-protected routes of routes/twitter.py and routes/github.py    *)
(* over the tables posts and repositories.  current_user is an input of    *)
(* every request; @login_required lets no anonymous request through.       *)
(* Repository.commits is empty here (no ingestion runs), so the cascade    *)
(* of a repository through its commits deletes nothing.                    *)
(***************************************************************************)
\* rows the two tables hold at most, and the largest id they hand out
MaxPostRows == 1
MaxRepositoryRows == 1

\* a NULL in the integer columns posts.repository_id and posts.commit_id
NullId == 0

\* users.id of the accounts that are logged in
SiteUsers == {1, 2}

\* ids under which api.github.com/repositories/<id> answers 200
GithubRepos == {101}

\* request.form.get('content')
FormContents == {"", "text"}

\* an INTEGER PRIMARY KEY of SQLite: one more than the largest id in the table
next_id(table) ==
    IF table = {} THEN 1
    ELSE 1 + (CHOOSE i \in {r.id : r \in table} :
                  \A r \in table : r.id <= i)

\* the query of the three routes without its user_id filter
own_post_any_user(table, post_id, user_id) ==
    IF \E p \in table : p.id = post_id /\ p.platform = "twitter"
    THEN CHOOSE p \in table : p.id = post_id /\ p.platform = "twitter"
    ELSE NULL

\* Post.query.filter_by(id=post_id, user_id=current_user.id,
\*                      platform='twitter').first()
own_post(table, post_id, user_id) ==
    IF \E p \in table : /\ p.id = post_id
                        /\ p.user_id = user_id
                        /\ p.platform = "twitter"
    THEN CHOOSE p \in table : /\ p.id = post_id
                              /\ p.user_id = user_id
                              /\ p.platform = "twitter"
    ELSE NULL

\* Repository.query.filter_by(id=repo_id, user_id=current_user.id).first()
own_repository(table, repo_id, user_id) ==
    IF \E r \in table : r.id = repo_id /\ r.user_id = user_id
    THEN CHOOSE r \in table : r.id = repo_id /\ r.user_id = user_id
    ELSE NULL

\* what a route of the two blueprints answered, and to whom
SiteAnswer(route, current_user, id, code, body) ==
    [route |-> route, current_user |-> current_user, id |-> id,
     code |-> code, body |-> body]

\* POST /posts/new
NewPost(current_user, content, repository_id, commit_id) ==
    /\ IF content = ""
       THEN /\ site_response' = SiteAnswer("new_post", current_user, None, 302,
                                           "Post content is required")
            /\ UNCHANGED post_table
       ELSE /\ Cardinality(post_table) < MaxPostRows
            /\ next_id(post_table) <= MaxPostRows
            /\ post_table' = post_table \cup
                  {[id |-> next_id(post_table), content |-> content,
                    platform |-> "twitter", status |-> "draft",
                    published_at |-> None, user_id |-> current_user,
                    repository_id |-> repository_id,
                    commit_id |-> commit_id]}
            /\ site_response' = SiteAnswer("new_post", current_user,
                                           next_id(post_table), 302,
                                           "Post created successfully")
    /\ UNCHANGED << configVars, sigVars, postVars, xVars, ghVars, reportVars,
                    commitVars, listVars, deviceVars, repository_table >>

\* POST /posts/<post_id>/publish
PublishPost(current_user, post_id) ==
    LET post == own_post(post_table, post_id, current_user)
    IN  /\ IF post = NULL
           THEN /\ site_response' = SiteAnswer("publish_post", current_user,
                                               post_id, 404, "Post not found")
                /\ UNCHANGED post_table
           ELSE IF post.status = "published"
           THEN /\ site_response' = SiteAnswer("publish_post", current_user,
                                               post_id, 400,
                                               "Post already published")
                /\ UNCHANGED post_table
           ELSE /\ post_table' = (post_table \ {post}) \cup
                      {[post EXCEPT !.status = "published",
                                    !.published_at = "now"]}
                /\ site_response' = SiteAnswer("publish_post", current_user,
                                               post_id, 200,
                                               "Post published successfully")
        /\ UNCHANGED << configVars, sigVars, postVars, xVars, ghVars,
                        reportVars, commitVars, listVars, deviceVars, repository_table >>

\* POST /posts/<post_id>/edit
EditPost(current_user, post_id, content) ==
    LET post == own_post(post_table, post_id, current_user)
    IN  /\ IF post = NULL
           THEN /\ site_response' = SiteAnswer("edit_post", current_user,
                                               post_id, 302, "Post not found")
                /\ UNCHANGED post_table
           ELSE IF content = ""
           THEN /\ site_response' = SiteAnswer("edit_post", current_user,
                                               post_id, 302,
                                               "Post content is required")
                /\ UNCHANGED post_table
           ELSE /\ post_table' = (post_table \ {post}) \cup
                      {[post EXCEPT !.content = content, !.status = "draft"]}
                /\ site_response' = SiteAnswer("edit_post", current_user,
                                               post_id, 302,
                                               "Post updated successfully")
        /\ UNCHANGED << configVars, sigVars, postVars, xVars, ghVars,
                        reportVars, commitVars, listVars, deviceVars, repository_table >>

\* POST /posts/<post_id>/delete
DeletePost(current_user, post_id) ==
    LET post == own_post(post_table, post_id, current_user)
    IN  /\ IF post = NULL
           THEN /\ site_response' = SiteAnswer("delete_post", current_user,
                                               post_id, 404, "Post not found")
                /\ UNCHANGED post_table
           ELSE /\ post_table' = post_table \ {post}
                /\ site_response' = SiteAnswer("delete_post", current_user,
                                               post_id, 200,
                                               "Post deleted successfully")
        /\ UNCHANGED << configVars, sigVars, postVars, xVars, ghVars,
                        reportVars, commitVars, listVars, deviceVars, repository_table >>

\* POST /repositories/<repo_id>/track; repo_id is the id GitHub knows
TrackRepository(current_user, repo_id) ==
    /\ IF repo_id \notin GithubRepos
       THEN /\ site_response' = SiteAnswer("track_repository", current_user,
                                           repo_id, 404, "Repository not found")
            /\ UNCHANGED repository_table
       ELSE IF \E r \in repository_table :
                   r.github_id = repo_id /\ r.user_id = current_user
       THEN /\ site_response' = SiteAnswer("track_repository", current_user,
                                           repo_id, 400,
                                           "Repository already tracked")
            /\ UNCHANGED repository_table
       ELSE IF \E r \in repository_table : r.github_id = repo_id
       THEN \* github_id is unique: the INSERT raises IntegrityError
            /\ site_response' = SiteAnswer("track_repository", current_user,
                                           repo_id, 500, "IntegrityError")
            /\ UNCHANGED repository_table
       ELSE /\ Cardinality(repository_table) < MaxRepositoryRows
            /\ next_id(repository_table) <= MaxRepositoryRows
            /\ repository_table' = repository_table \cup
                  {[id |-> next_id(repository_table), github_id |-> repo_id,
                    user_id |-> current_user]}
            /\ site_response' = SiteAnswer("track_repository", current_user,
                                           repo_id, 200,
                                           "Repository tracked successfully")
    /\ UNCHANGED << configVars, sigVars, postVars, xVars, ghVars, reportVars,
                    commitVars, listVars, deviceVars, post_table >>

\* db.session.delete(repository) with cascade='all, delete-orphan' on
\* Repository.posts: the posts of the repository are deleted with it
delete_repository_cascade(table, repository) ==
    {p \in table : p.repository_id # repository.id}

\* POST /repositories/<repo_id>/untrack; repo_id is repositories.id
UntrackRepository(current_user, repo_id) ==
    LET repository == own_repository(repository_table, repo_id, current_user)
    IN  /\ IF repository = NULL
           THEN /\ site_response' = SiteAnswer("untrack_repository",
                                               current_user, repo_id, 404,
                                               "Repository not found")
                /\ UNCHANGED << repository_table, post_table >>
           ELSE /\ repository_table' = repository_table \ {repository}
                /\ post_table' =
                       delete_repository_cascade(post_table, repository)
                /\ site_response' = SiteAnswer("untrack_repository",
                                               current_user, repo_id, 200,
                                               "Repository untracked successfully")
        /\ UNCHANGED << configVars, sigVars, postVars, xVars, ghVars,
                        reportVars, commitVars, listVars, deviceVars >>

(***************************************************************************)
(* The listing routes of routes/reports.py: GET /reports/bottom5 and       *)
(* GET /reports over table reports.  A row is [id, organization, status,   *)
(* created_at]; created_at counts the seconds of CURRENT_TIMESTAMP, and    *)
(* rows are stored in the order of their ids, so created_at never falls.   *)
(***************************************************************************)
MaxStored == 6

\* the rows a request for the five most recent reports asks for
BottomCount == 5

\* request.args.get("limit", 50)
DefaultLimit == 50

\* 'limit (int): Maximum number of results to return (default: 50, max: 100)'
DocumentedMaxLimit == 100

\* int(value) of a query string: an optional sign, then decimal digits
int(cs) ==
    IF Len(cs) > 1 /\ cs[1] \in {"-", "+"} /\ AllDigits(Tail(cs))
    THEN Return(IF cs[1] = "-" THEN 0 - IntOf(Tail(cs)) ELSE IntOf(Tail(cs)))
    ELSE IF cs # << >> /\ AllDigits(cs) THEN Return(IntOf(cs))
    ELSE Raise("ValueError")

\* ORDER BY created_at DESC; rows of one second stay in the order of their ids
order_by_created_at_desc(rows) ==
    LET before == [i \in DOMAIN rows |->
                      Cardinality({j \in DOMAIN rows :
                          \/ rows[j].created_at > rows[i].created_at
                          \/ /\ rows[j].created_at = rows[i].created_at
                             /\ j < i})]
    IN  [k \in DOMAIN rows |->
            rows[CHOOSE i \in DOMAIN rows : before[i] = k - 1]]

\* LIMIT ? OFFSET ? of SQLite: a negative limit is no limit, a negative
\* offset is no offset
limit_offset(rows, limit, offset) ==
    LET skip == IF offset < 0 THEN 0 ELSE offset
        last == IF limit < 0 THEN Len(rows) ELSE Min(Len(rows), skip + limit)
    IN  SubSeq(rows, skip + 1, last)

\* cursor.execute(query, (offset,)) of get_bottom_5_reports
bottom_5_query(table, offset) ==
    limit_offset(order_by_created_at_desc(table), BottomCount, offset)

\* get_bottom_5_reports: the JSON it answers with
get_bottom_5_reports(table) ==
    LET total_count == Len(table)
    IN  IF total_count = 0
        THEN [route |-> "bottom5", code |-> 200, total_count |-> 0,
              reports |-> << >>]
        ELSE LET offset == IF total_count - BottomCount > 0
                           THEN total_count - BottomCount ELSE 0
             IN  [route |-> "bottom5", code |-> 200,
                  total_count |-> total_count,
                  reports |-> bottom_5_query(table, offset)]

\* the WHERE clause list_reports builds: a filter that is None or '' is left out
where_clause(row, organization, status, from_date_filter, to_date_filter) ==
    /\ organization \in {None, ""} \/ row.organization = organization
    /\ status \in {None, ""} \/ row.status = status
    /\ from_date_filter = NULL \/ row.created_at >= from_date_filter.at
    /\ to_date_filter = NULL \/ row.created_at <= to_date_filter.at

\* database/db.py list_reports
list_reports(table, organization, status, from_date_filter, to_date_filter, limit, offset) ==
    LET matching == SelectSeq(table,
                        LAMBDA row : where_clause(row, organization, status,
                                         from_date_filter, to_date_filter))
    IN  [reports |-> limit_offset(order_by_created_at_desc(matching),
                                  limit, offset),
         total_count |-> Len(matching),
         limit |-> limit, offset |-> offset,
         has_more |-> offset + limit < Len(matching)]

\* a table of n reports: created[i] says whether report i + 1 was created in
\* a later second than report i
StoredTable(created) ==
    LET RECURSIVE at(_)
        at(i) == IF i = 1 THEN 1
                 ELSE at(i - 1) + (IF created[i - 1] THEN 1 ELSE 0)
    IN  [i \in 1..(Len(created) + 1) |->
            [id |-> i, organization |-> "acme",
             status |-> IF i % 3 = 0 THEN "failed" ELSE "completed",
             created_at |-> at(i)]]

\* one report more than the documented maximum, one per second
BigTable ==
    [i \in 1..(DocumentedMaxLimit + 1) |->
        [id |-> i, organization |-> "acme", status |-> "completed",
         created_at |-> i]]

StoredTables ==
    {<< >>, BigTable}
        \cup {StoredTable(created) : created \in SeqsUpTo(BOOLEAN, MaxStored - 1)}

\* the values of the query parameters limit and offset; NULL is an absent one
LimitArgs == {NULL, Str(<<"2">>), Str(<<"1", "5", "0">>), Str(<<"-", "1">>),
              Str(<<"x">>)}

OffsetArgs == {NULL, Str(<<"1">>)}

\* the query parameters organization, status, from_date and to_date
ListFilters ==
    {[organization |-> None, status |-> None,
      from_date_filter |-> NULL, to_date_filter |-> NULL],
     [organization |-> "acme", status |-> "failed",
      from_date_filter |-> NULL, to_date_filter |-> NULL],
     [organization |-> "", status |-> None,
      from_date_filter |-> [at |-> 2], to_date_filter |-> [at |-> 3]]}

\* GET /reports/bottom5
GetBottom5Reports ==
    /\ listing' = get_bottom_5_reports(report_rows)
    /\ UNCHANGED << configVars, sigVars, postVars, xVars, ghVars, reportVars,
                    commitVars, siteVars, deviceVars, report_rows >>

\* GET /reports
ListAllReports(organization, status, from_date_filter, to_date_filter, limit_arg, offset_arg) ==
    LET limit == IF limit_arg = NULL THEN Return(DefaultLimit)
                 ELSE int(limit_arg.chars)
        offset == IF offset_arg = NULL THEN Return(0)
                  ELSE int(offset_arg.chars)
    IN  /\ IF limit.raised # None \/ offset.raised # None
           THEN listing' = [route |-> "list", code |-> 400,
                            error |-> "limit and offset must be integers"]
           ELSE listing' = [route |-> "list", code |-> 200,
                            result |-> list_reports(report_rows, organization,
                                           status, from_date_filter,
                                           to_date_filter, limit.value,
                                           offset.value)]
        /\ UNCHANGED << configVars, sigVars, postVars, xVars, ghVars,
                        reportVars, commitVars, siteVars, deviceVars, report_rows >>

(***************************************************************************)
(* The device flow of auth_app.py.  app.run serves every request in a      *)
(* thread of its own, so the handlers of /auth/poll and /auth/status run   *)
(* interleaved over the module global device_codes: each access to the     *)
(* dict is a step of its own.  An entry is written once and never updated, *)
(* and GitHub issues every device code once, so time.time() - created_at > *)
(* expires_in is the question whether the code's lifetime has elapsed.     *)
(***************************************************************************)

\* the threads that serve requests
Workers == {1, 2}

\* the device codes GitHub issues
DeviceCodes == {"dc1", "dc2"}

\* GitHub's answers to the POST of initiate_device_flow
DeviceResponses == {"ok", "incomplete", "HTTPError", "Timeout", "ConnectionError"}

\* GitHub's answers to the POST of poll_for_token
TokenResponses ==
    {"authorization_pending", "slow_down", "access_denied", "expired_token",
     "incorrect_device_code", "access_token", "no_access_token", "Timeout",
     "ConnectionError"}

IdleThread == [pc |-> "idle"]

\* what a handler answered: body names the JSON it sent, raised the exception
\* that produced it; tick tells two equal answers in a row apart
DeviceAnswer(worker, route, device_code, code, body, raised) ==
    [worker |-> worker, route |-> route, device_code |-> device_code,
     code |-> code, body |-> body, raised |-> raised,
     tick |-> IF "tick" \in DOMAIN device_last THEN 1 - device_last.tick ELSE 0]

\* del device_codes[device_code] that leaves the entry where it is
del_device_code_kept(codes, device_code) ==
    IF device_code \in DOMAIN codes
    THEN Return(codes)
    ELSE Raise("KeyError")

\* del device_codes[device_code]
del_device_code(codes, device_code) ==
    IF device_code \in DOMAIN codes
    THEN Return([c \in DOMAIN codes \ {device_code} |-> codes[c]])
    ELSE Raise("KeyError")

\* device_codes[device_code]
device_info_of(codes, device_code) ==
    IF device_code \in DOMAIN codes
    THEN Return(codes[device_code])
    ELSE Raise("KeyError")

\* the access tokens answered so far for device_code, counted up to two
count_token(tokens, device_code) ==
    [tokens EXCEPT ![device_code] = IF @ < 2 THEN @ + 1 ELSE @]

\* POST /auth/device
InitiateDeviceFlow(worker, device_code, github) ==
    /\ device_threads[worker] = IdleThread
    /\ IF ~Set(GITHUB_CLIENT_ID)
       THEN /\ device_last' = DeviceAnswer(worker, "device", None, 500,
                                  "GITHUB_CLIENT_ID not configured", None)
            /\ UNCHANGED << device_codes, device_issued >>
       ELSE IF github = "ok"
       THEN /\ device_code \notin device_issued
            /\ device_issued' = device_issued \cup {device_code}
            /\ device_codes' =
                   [c \in DOMAIN device_codes \cup {device_code} |->
                       IF c = device_code THEN [status |-> "pending"]
                       ELSE device_codes[c]]
            /\ device_last' = DeviceAnswer(worker, "device", device_code, 200,
                                           "user_code", None)
       ELSE /\ device_last' =
                   CASE github = "incomplete" ->
                            DeviceAnswer(worker, "device", None, 500,
                                "Invalid response from GitHub", None)
                     [] github = "Timeout" ->
                            DeviceAnswer(worker, "device", None, 504,
                                "Request to GitHub timed out", github)
                     [] github = "ConnectionError" ->
                            DeviceAnswer(worker, "device", None, 503,
                                "Failed to connect to GitHub", github)
                     [] OTHER ->
                            DeviceAnswer(worker, "device", None, 400,
                                "GitHub API error", github)
            /\ UNCHANGED << device_codes, device_issued >>
    /\ UNCHANGED << configVars, sigVars, postVars, xVars, ghVars, reportVars,
                    commitVars, siteVars, listVars, device_elapsed,
                    device_threads, device_tokens >>

\* expires_in seconds have passed since device_code was issued
Elapse(device_code) ==
    /\ device_code \in device_issued
    /\ device_code \notin device_elapsed
    /\ device_elapsed' = device_elapsed \cup {device_code}
    /\ UNCHANGED << configVars, sigVars, postVars, xVars, ghVars, reportVars,
                    commitVars, siteVars, listVars, device_codes,
                    device_issued, device_threads, device_last,
                    device_tokens >>

\* a handler ends with an answer
Answers(worker, answer) ==
    /\ device_threads' = [device_threads EXCEPT ![worker] = IdleThread]
    /\ device_last' = answer

\* a handler goes on to its next statement
GoesOn(worker, pc) ==
    /\ device_threads' = [device_threads EXCEPT ![worker].pc = pc]
    /\ UNCHANGED device_last

\* an exception outside every try block: Flask answers 500
Unhandled(worker, route, device_code, raised) ==
    DeviceAnswer(worker, route, device_code, 500, "Internal Server Error",
                 raised)

\* POST /auth/poll up to 'if device_code not in device_codes'
PollBegin(worker, device_code) ==
    /\ device_threads[worker] = IdleThread
    /\ IF device_code \notin DOMAIN device_codes
       THEN /\ device_last' = DeviceAnswer(worker, "poll", device_code, 400,
                                  "Invalid or expired device_code", None)
            /\ UNCHANGED device_threads
       ELSE /\ device_threads' =
                   [device_threads EXCEPT ![worker] =
                       [pc |-> "poll_read", device_code |-> device_code]]
            /\ UNCHANGED device_last
    /\ UNCHANGED << configVars, sigVars, postVars, xVars, ghVars, reportVars,
                    commitVars, siteVars, listVars, device_codes,
                    device_issued, device_elapsed, device_tokens >>

\* device_info = device_codes[device_code]
PollRead(worker) ==
    LET thread == device_threads[worker]
    IN  /\ thread.pc = "poll_read"
        /\ IF device_info_of(device_codes, thread.device_code).raised # None
           THEN Answers(worker, Unhandled(worker, "poll", thread.device_code,
                                          "KeyError"))
           ELSE GoesOn(worker, "poll_expiry")
        /\ UNCHANGED << configVars, sigVars, postVars, xVars, ghVars,
                        reportVars, commitVars, siteVars, listVars,
                        device_codes, device_issued, device_elapsed,
                        device_tokens >>

\* the expiry check of poll_for_token and its del
PollExpiry(worker) ==
    LET thread == device_threads[worker]
        deleted == del_device_code(device_codes, thread.device_code)
    IN  /\ thread.pc = "poll_expiry"
        /\ IF thread.device_code \notin device_elapsed
           THEN /\ GoesOn(worker, "poll_request")
                /\ UNCHANGED device_codes
           ELSE IF deleted.raised # None
           THEN /\ Answers(worker, Unhandled(worker, "poll",
                                       thread.device_code, deleted.raised))
                /\ UNCHANGED device_codes
           ELSE /\ device_codes' = deleted.value
                /\ Answers(worker, DeviceAnswer(worker, "poll",
                               thread.device_code, 400,
                               "Device code has expired", None))
        /\ UNCHANGED << configVars, sigVars, postVars, xVars, ghVars,
                        reportVars, commitVars, siteVars, listVars,
                        device_issued, device_elapsed, device_tokens >>

\* what poll_for_token does with GitHub's answer when its del succeeds or is
\* not needed: [code, body, deletes, token]
poll_outcome(github) ==
    CASE github = "authorization_pending" ->
             [code |-> 202, body |-> "pending", deletes |-> FALSE]
      [] github = "slow_down" ->
             [code |-> 429, body |-> "slow_down", deletes |-> FALSE]
      [] github = "access_denied" ->
             [code |-> 403, body |-> "denied", deletes |-> TRUE]
      [] github = "expired_token" ->
             [code |-> 400, body |-> "expired", deletes |-> TRUE]
      [] github = "incorrect_device_code" ->
             [code |-> 500, body |-> "Request failed", deletes |-> FALSE]
      [] github = "no_access_token" ->
             [code |-> 500, body |-> "No access token in response",
              deletes |-> FALSE]
      [] github = "access_token" ->
             [code |-> 200, body |-> "success", deletes |-> TRUE]
      [] github = "Timeout" ->
             [code |-> 504, body |-> "Request to GitHub timed out",
              deletes |-> FALSE]
      [] github = "ConnectionError" ->
             [code |-> 503, body |-> "Failed to connect to GitHub",
              deletes |-> FALSE]

\* the try block of poll_for_token: the request to GitHub and its answer
PollRequest(worker, github) ==
    LET thread == device_threads[worker]
        outcome == poll_outcome(github)
        deleted == del_device_code(device_codes, thread.device_code)
    IN  /\ thread.pc = "poll_request"
        /\ IF ~outcome.deletes
           THEN /\ Answers(worker, DeviceAnswer(worker, "poll",
                               thread.device_code, outcome.code, outcome.body,
                               IF github \in {"Timeout", "ConnectionError"}
                               THEN github
                               ELSE IF github = "incorrect_device_code"
                               THEN "HTTPError" ELSE None))
                /\ UNCHANGED << device_codes, device_tokens >>
           ELSE IF deleted.raised # None
           THEN \* except Exception as e
                /\ Answers(worker, DeviceAnswer(worker, "poll",
                               thread.device_code, 500, "Unexpected error",
                               deleted.raised))
                /\ UNCHANGED << device_codes, device_tokens >>
           ELSE /\ device_codes' = deleted.value
                /\ Answers(worker, DeviceAnswer(worker, "poll",
                               thread.device_code, outcome.code, outcome.body,
                               None))
                /\ device_tokens' =
                       IF github = "access_token"
                       THEN count_token(device_tokens, thread.device_code)
                       ELSE device_tokens
        /\ UNCHANGED << configVars, sigVars, postVars, xVars, ghVars,
                        reportVars, commitVars, siteVars, listVars,
                        device_issued, device_elapsed >>

\* GET /auth/status/<device_code> up to 'if device_code not in device_codes'
StatusBegin(worker, device_code) ==
    /\ device_threads[worker] = IdleThread
    /\ IF device_code \notin DOMAIN device_codes
       THEN /\ device_last' = DeviceAnswer(worker, "status", device_code, 404,
                                  "Device code not found", None)
            /\ UNCHANGED device_threads
       ELSE /\ device_threads' =
                   [device_threads EXCEPT ![worker] =
                       [pc |-> "status_read", device_code |-> device_code]]
            /\ UNCHANGED device_last
    /\ UNCHANGED << configVars, sigVars, postVars, xVars, ghVars, reportVars,
                    commitVars, siteVars, listVars, device_codes,
                    device_issued, device_elapsed, device_tokens >>

\* device_info = device_codes[device_code] of get_device_status
StatusRead(worker) ==
    LET thread == device_threads[worker]
    IN  /\ thread.pc = "status_read"
        /\ IF device_info_of(device_codes, thread.device_code).raised # None
           THEN Answers(worker, Unhandled(worker, "status",
                                          thread.device_code, "KeyError"))
           ELSE GoesOn(worker, "status_expiry")
        /\ UNCHANGED << configVars, sigVars, postVars, xVars, ghVars,
                        reportVars, commitVars, siteVars, listVars,
                        device_codes, device_issued, device_elapsed,
                        device_tokens >>

\* the expiry check of get_device_status, its del and its answer
StatusExpiry(worker) ==
    LET thread == device_threads[worker]
        deleted == del_device_code(device_codes, thread.device_code)
    IN  /\ thread.pc = "status_expiry"
        /\ IF thread.device_code \notin device_elapsed
           THEN /\ Answers(worker, DeviceAnswer(worker, "status",
                               thread.device_code, 200, "pending", None))
                /\ UNCHANGED device_codes
           ELSE IF deleted.raised # None
           THEN /\ Answers(worker, Unhandled(worker, "status",
                                       thread.device_code, deleted.raised))
                /\ UNCHANGED device_codes
           ELSE /\ device_codes' = deleted.value
                /\ Answers(worker, DeviceAnswer(worker, "status",
                               thread.device_code, 400,
                               "Device code has expired", None))
        /\ UNCHANGED << configVars, sigVars, postVars, xVars, ghVars,
                        reportVars, commitVars, siteVars, listVars,
                        device_issued, device_elapsed, device_tokens >>

(***************************************************************************)
(* Initial states and specifications.  Each specification runs one part of *)
(* the program; the variables of the other parts keep their initial value. *)
(***************************************************************************)
SigIdle == wire = NoDelivery /\ verdict = NoVerdict

PostsIdle ==
    /\ posts = << >>
    /\ response = NoResponse
    /\ tweets = NoTweets
    /\ generated = NoGenerated

XIdle ==
    /\ session = [oauth_state |-> None]
    /\ oauth_tokens = {}
    /\ x_exchanges = 0
    /\ x_request = NoRequest

GhIdle ==
    /\ gh_session = [user_id |-> None]
    /\ users = {}
    /\ gh_exchanges = 0
    /\ gh_request = NoRequest

NoCall == [called |-> FALSE]

ReportsIdle ==
    /\ validated = NoCall
    /\ crabbit = NoCall
    /\ coderabbit_reports = << >>
    /\ cr_tasks = {}
    /\ cr_handler = [pc |-> "idle"]
    /\ cr_response = NoResponse
    /\ reports = << >>
    /\ report_metrics = << >>
    /\ rp_response = NoResponse
    /\ review_calls = 0

CommitsIdle ==
    /\ commit_table = << >>
    /\ ingested = NoCall

SiteIdle ==
    /\ post_table = {}
    /\ repository_table = {}
    /\ site_response = NoResponse

ListIdle ==
    /\ report_rows = << >>
    /\ listing = NoResponse

DeviceIdle ==
    /\ device_codes = << >>
    /\ device_issued = {}
    /\ device_elapsed = {}
    /\ device_threads = [worker \in Workers |-> IdleThread]
    /\ device_last = NoResponse
    /\ device_tokens = [device_code \in DeviceCodes |-> 0]

RestIdle == SiteIdle /\ ListIdle /\ DeviceIdle

\* no secret, no API client, no OAuth application configured
ConfigIdle ==
    /\ GITHUB_WEBHOOK_SECRET = None
    /\ openai_client = FALSE
    /\ twitter_poster = [client |-> FALSE, api |-> FALSE]
    /\ X_CLIENT_ID = None
    /\ X_CLIENT_SECRET = None
    /\ GITHUB_CLIENT_ID = None

\* the signature verifiers
SigInit ==
    /\ GITHUB_WEBHOOK_SECRET \in Secrets
    /\ openai_client = FALSE
    /\ twitter_poster = [client |-> FALSE, api |-> FALSE]
    /\ X_CLIENT_ID = None /\ X_CLIENT_SECRET = None /\ GITHUB_CLIENT_ID = None
    /\ SigIdle /\ PostsIdle /\ XIdle /\ GhIdle /\ ReportsIdle /\ CommitsIdle
    /\ RestIdle

SigNext ==
    \/ \E k \in Keys, b \in Bodies : SigSend(k, b)
    \/ \E b \in Bodies : SigSendUnsigned(b)
    \/ \E b \in Bodies : SigAlterBody(b)
    \/ \E sch \in Schemes : SigAlterScheme(sch)
    \/ SigVerify

SpecSig == SigInit /\ [][SigNext]_vars

\* the webhook endpoint
WebhookInit ==
    /\ GITHUB_WEBHOOK_SECRET \in {None, Placeholder, "k1"}
    /\ openai_client \in BOOLEAN
    /\ twitter_poster = [client |-> FALSE, api |-> FALSE]
    /\ X_CLIENT_ID = None /\ X_CLIENT_SECRET = None /\ GITHUB_CLIENT_ID = None
    /\ SigIdle /\ PostsIdle /\ XIdle /\ GhIdle /\ ReportsIdle /\ CommitsIdle
    /\ RestIdle

WebhookNext ==
    \/ \E b \in WebhookBodies, e \in Events : \E h \in HeadersFor(b) : Deliver(b, e, h)
    \/ \E c \in WebhookCompletions, f \in 0..MaxCommits : github_webhook(c, f)

SpecWebhook == WebhookInit /\ [][WebhookNext]_vars

\* the X OAuth routes
XInit ==
    /\ X_CLIENT_ID \in {None, "x-client"}
    /\ X_CLIENT_SECRET \in {None, "x-secret"}
    /\ GITHUB_WEBHOOK_SECRET = None
    /\ openai_client = FALSE
    /\ twitter_poster = [client |-> FALSE, api |-> FALSE]
    /\ GITHUB_CLIENT_ID = None
    /\ SigIdle /\ PostsIdle /\ XIdle /\ GhIdle /\ ReportsIdle /\ CommitsIdle
    /\ RestIdle

XNext ==
    \/ \E st \in StateTokens : x_oauth_authorize(st)
    \/ \E st \in StateTokens \cup {None}, code \in {None, "code1"},
          token \in AccessTokens \cup {"HTTPError"}, user \in XUsers \cup {"HTTPError"} :
          x_oauth_callback(st, code, token, user)
    \/ x_oauth_disconnect

SpecXOAuth == XInit /\ [][XNext]_vars

\* the GitHub login routes
GhLoginInit ==
    /\ GITHUB_CLIENT_ID \in {None, "gh-client"}
    /\ GITHUB_WEBHOOK_SECRET = None
    /\ openai_client = FALSE
    /\ twitter_poster = [client |-> FALSE, api |-> FALSE]
    /\ X_CLIENT_ID = None /\ X_CLIENT_SECRET = None
    /\ SigIdle /\ PostsIdle /\ XIdle /\ GhIdle /\ ReportsIdle /\ CommitsIdle
    /\ RestIdle

GhLoginNext ==
    \/ login
    \/ \E st \in StateTokens \cup {None}, code \in {None, "code1"},
          token \in AccessTokens \cup {None, "HTTPError"},
          user \in GithubIds \cup {"HTTPError"} : callback(st, code, token, user)
    \/ logout

SpecGhLogin == GhLoginInit /\ [][GhLoginNext]_vars

\* the publishers on their own
PublisherInit ==
    /\ twitter_poster \in {TwitterPoster__init__(env) : env \in PosterEnvs}
    /\ GITHUB_WEBHOOK_SECRET = None
    /\ openai_client = FALSE
    /\ X_CLIENT_ID = None /\ X_CLIENT_SECRET = None /\ GITHUB_CLIENT_ID = None
    /\ SigIdle /\ PostsIdle /\ XIdle /\ GhIdle /\ ReportsIdle /\ CommitsIdle
    /\ RestIdle

PublisherNext ==
    \/ \E c \in Contents, v2 \in BOOLEAN, v11 \in BOOLEAN : PostTweet(c, v2, v11)
    \/ \E cl \in BOOLEAN, c \in Contents, ok \in BOOLEAN, data \in BOOLEAN :
          ServicePostTweet(cl, c, ok, data)

SpecPublisher == PublisherInit /\ [][PublisherNext]_vars

\* the first n commits of a repository: a root commit, then plain ones
History(n) == [i \in 1..n |-> IF i = 1 THEN "root" ELSE "plain"]

\* the posts that the push of such a history leaves in the table
SeededPosts ==
    { webhook_loop(json(PushBody(History(n))), 1, << >>, FALSE, [raises |-> TRUE], 0).rows :
        n \in 0..MaxPosts }

\* review and publication of stored posts
PostsInit ==
    /\ posts \in SeededPosts
    /\ twitter_poster \in {TwitterPoster__init__(env) : env \in PosterEnvs}
    /\ response = NoResponse /\ tweets = NoTweets /\ generated = NoGenerated
    /\ GITHUB_WEBHOOK_SECRET = None
    /\ openai_client = FALSE
    /\ X_CLIENT_ID = None /\ X_CLIENT_SECRET = None /\ GITHUB_CLIENT_ID = None
    /\ SigIdle /\ XIdle /\ GhIdle /\ ReportsIdle /\ CommitsIdle
    /\ RestIdle

PostsNext ==
    \/ \E id \in 1..(MaxPosts + 1), m \in {"GET", "POST"}, c \in EditedContents :
          edit_post(id, m, c)
    \/ \E id \in 1..(MaxPosts + 1), v2 \in BOOLEAN, v11 \in BOOLEAN :
          publish_post(id, v2, v11)

SpecPosts == PostsInit /\ [][PostsNext]_vars

\* the generator on its own
GeneratorInit ==
    /\ openai_client \in BOOLEAN
    /\ GITHUB_WEBHOOK_SECRET = None
    /\ twitter_poster = [client |-> FALSE, api |-> FALSE]
    /\ X_CLIENT_ID = None /\ X_CLIENT_SECRET = None /\ GITHUB_CLIENT_ID = None
    /\ SigIdle /\ PostsIdle /\ XIdle /\ GhIdle /\ ReportsIdle /\ CommitsIdle
    /\ RestIdle

GeneratorNext == \E cd \in CommitDatas, c \in Completions : GeneratePost(cd, c)

SpecGenerator == GeneratorInit /\ [][GeneratorNext]_vars

\* the parameter validation on its own
ValidateInit ==
    /\ ConfigIdle
    /\ SigIdle /\ PostsIdle /\ XIdle /\ GhIdle /\ ReportsIdle /\ CommitsIdle
    /\ RestIdle

ValidateNext == \E data \in ReportRequests : Validate(data)

SpecValidate == ValidateInit /\ [][ValidateNext]_vars

\* the review-API client on its own
CrabbitInit ==
    /\ ConfigIdle
    /\ SigIdle /\ PostsIdle /\ XIdle /\ GhIdle /\ ReportsIdle /\ CommitsIdle
    /\ RestIdle

CrabbitNext ==
    \E key \in {None, "cr-key"}, kw \in ReportKwargs, file \in PromptFiles,
       http \in HttpOutcomes : GenerateCoderabbitReport(key, kw, file, http)

SpecCrabbit == CrabbitInit /\ [][CrabbitNext]_vars

\* the asynchronous report pipeline
AnalyzeInit ==
    /\ ConfigIdle
    /\ SigIdle /\ PostsIdle /\ XIdle /\ GhIdle /\ ReportsIdle /\ CommitsIdle
    /\ RestIdle

AnalyzeNext ==
    \/ \E data \in AnalyzeRequests : AnalyzeCreate(data)
    \/ AnalyzeSpawn
    \/ AnalyzeRespond
    \/ \E report_id \in 1..MaxReports, env \in CrabbitCases :
           TaskCall(TaskOf(report_id), env)
    \/ \E report_id \in 1..MaxReports : TaskUpdate(TaskOf(report_id))
    \/ SaveReport
    \/ \E report_id \in 1..MaxReports : ReportStatus(report_id)

SpecAnalyze == AnalyzeInit /\ [][AnalyzeNext]_vars

\* the asynchronous report pipeline when the request thread and every
\* started background thread keep being scheduled and the review call ends
\* (requests.post has timeout=120); one accepted and one rejected request,
\* and a review call that succeeds, returns an error value, or raises
FairCases ==
    {c \in CrabbitCases :
        \/ c.api_key = None
        \/ c.file.raises = "PermissionError"
        \/ c.http = Http(200, JsonObject({"total_reviews"}))}

AnalyzeFairNext ==
    \/ \E data \in {[from_date |-> May01, to_date |-> May15], [from_date |-> May01]} :
           AnalyzeCreate(data)
    \/ AnalyzeSpawn
    \/ AnalyzeRespond
    \/ \E report_id \in 1..MaxReports, env \in FairCases :
           TaskCall(TaskOf(report_id), env)
    \/ \E report_id \in 1..MaxReports : TaskUpdate(TaskOf(report_id))
    \/ SaveReport
    \/ \E report_id \in 1..MaxReports : ReportStatus(report_id)

SpecAnalyzeFair ==
    /\ AnalyzeInit
    /\ [][AnalyzeFairNext]_vars
    /\ WF_vars(AnalyzeSpawn)
    /\ WF_vars(AnalyzeRespond)
    /\ \A report_id \in 1..MaxReports :
           /\ WF_vars(\E env \in FairCases : TaskCall(TaskOf(report_id), env))
           /\ WF_vars(TaskUpdate(TaskOf(report_id)))

\* the synchronous report route
ReportsInit ==
    /\ ConfigIdle
    /\ SigIdle /\ PostsIdle /\ XIdle /\ GhIdle /\ ReportsIdle /\ CommitsIdle
    /\ RestIdle

ReportsNext ==
    \/ \E data \in GenerateRequests, env \in CrabbitCases : GenerateReport(data, env)
    \/ \E report_id \in 1..MaxReports : GetReport(report_id)

SpecReports == ReportsInit /\ [][ReportsNext]_vars

\* commit ingestion
IngestInit ==
    /\ ConfigIdle
    /\ SigIdle /\ PostsIdle /\ XIdle /\ GhIdle /\ ReportsIdle /\ CommitsIdle
    /\ RestIdle

IngestNext ==
    \/ \E payload \in Payloads : ProcessWebhookPayload(payload)
    \/ \E repository \in Repositories, shas \in SeqsUpTo(ShaPool, MaxCommits) :
           SyncRepositoryCommits(repository, shas)

SpecIngest == IngestInit /\ [][IngestNext]_vars

\* the two accounts use the post and repository routes in any order
SiteInit ==
    /\ ConfigIdle
    /\ SigIdle /\ PostsIdle /\ XIdle /\ GhIdle /\ ReportsIdle /\ CommitsIdle
    /\ RestIdle

SiteNext ==
    \/ \E current_user \in SiteUsers, content \in FormContents,
          repository_id \in {NullId, 1}, commit_id \in {NullId} :
           NewPost(current_user, content, repository_id, commit_id)
    \/ \E current_user \in SiteUsers, post_id \in 1..(MaxPostRows + 1) :
           PublishPost(current_user, post_id)
    \/ \E current_user \in SiteUsers, post_id \in 1..(MaxPostRows + 1), content \in FormContents :
           EditPost(current_user, post_id, content)
    \/ \E current_user \in SiteUsers, post_id \in 1..(MaxPostRows + 1) :
           DeletePost(current_user, post_id)
    \/ \E current_user \in SiteUsers, repo_id \in GithubRepos \cup {102} :
           TrackRepository(current_user, repo_id)
    \/ \E current_user \in SiteUsers, repo_id \in 1..(MaxRepositoryRows + 1) :
           UntrackRepository(current_user, repo_id)

SpecSite == SiteInit /\ [][SiteNext]_vars

\* the listing routes over every table of up to MaxStored reports
ListInit ==
    /\ ConfigIdle
    /\ SigIdle /\ PostsIdle /\ XIdle /\ GhIdle /\ ReportsIdle /\ CommitsIdle
    /\ SiteIdle /\ DeviceIdle
    /\ report_rows \in StoredTables
    /\ listing = NoResponse

ListNext ==
    \/ GetBottom5Reports
    \/ \E filters \in ListFilters, limit_arg \in LimitArgs,
          offset_arg \in OffsetArgs :
           ListAllReports(filters.organization, filters.status,
                          filters.from_date_filter, filters.to_date_filter,
                          limit_arg, offset_arg)

SpecList == ListInit /\ [][ListNext]_vars

\* two threads serve the device flow in any interleaving
DeviceInit ==
    /\ GITHUB_CLIENT_ID \in {None, "gh-client"}
    /\ GITHUB_WEBHOOK_SECRET = None
    /\ openai_client = FALSE
    /\ twitter_poster = [client |-> FALSE, api |-> FALSE]
    /\ X_CLIENT_ID = None /\ X_CLIENT_SECRET = None
    /\ SigIdle /\ PostsIdle /\ XIdle /\ GhIdle /\ ReportsIdle /\ CommitsIdle
    /\ SiteIdle /\ ListIdle /\ DeviceIdle

DeviceNext ==
    \/ \E worker \in Workers, device_code \in DeviceCodes,
          github \in DeviceResponses :
           InitiateDeviceFlow(worker, device_code, github)
    \/ \E device_code \in DeviceCodes : Elapse(device_code)
    \/ \E worker \in Workers, device_code \in DeviceCodes :
           PollBegin(worker, device_code)
    \/ \E worker \in Workers : PollRead(worker)
    \/ \E worker \in Workers : PollExpiry(worker)
    \/ \E worker \in Workers, github \in TokenResponses :
           PollRequest(worker, github)
    \/ \E worker \in Workers, device_code \in DeviceCodes :
           StatusBegin(worker, device_code)
    \/ \E worker \in Workers : StatusRead(worker)
    \/ \E worker \in Workers : StatusExpiry(worker)

SpecDevice == DeviceInit /\ [][DeviceNext]_vars

(***************************************************************************)
(* Properties of the webhook endpoint (SpecWebhook).                       *)
(***************************************************************************)
\* a step of github_webhook: the pending delivery is answered
HandlerStep == wire.sent /\ ~wire'.sent

\* the rows a step added to table posts
NewRows == SubSeq(posts', Len(posts) + 1, Len(posts'))

Accepted(delivery) ==
    verify_github_signature(delivery.body, delivery.header) /\ delivery.event = "push"

NonMerge(payload) ==
    {i \in DOMAIN CommitsOf(payload) :
        Len(Get(payload.commits[i], "parents", << >>)) <= 1}

\* C2: for an accepted push delivery the number of posts the handler stores
\* is the number of commits of the payload with at most one parent.
C2_OnePostPerNonMergeCommit ==
    [][HandlerStep /\ Accepted(wire) =>
        Len(posts') - Len(posts) = Cardinality(NonMerge(json(wire.body)))]_vars

\* C3: a commit that fails does not abort the delivery: the handler answers
\* 200 "Processed N commits", and every complete commit with at most one
\* parent that comes after a commit with a missing field has its post stored.
C3_FailureDoesNotAbort ==
    [][HandlerStep /\ Accepted(wire) /\ Has(wire.body, {"repository", "commits"}) =>
        LET payload == json(wire.body)
            broken == {i \in NonMerge(payload) : ~Has(payload.commits[i], CommitKeys)}
        IN /\ response'.code = 200 /\ response'.message = "Processed N commits"
           /\ \A i \in NonMerge(payload) \ broken :
                 (\E j \in broken : j < i) =>
                     \E r \in DOMAIN NewRows :
                         NewRows[r].commit_sha = payload.commits[i].id]_vars
(***************************************************************************)
(* Properties of the signature verifiers (SpecSig).                        *)
(***************************************************************************)
\* C4: with a configured secret each verifier returns true exactly when the
\* header is "sha256=" + HMAC_SHA256(secret, body) of the delivered body, and
\* returns false otherwise (absent header, other prefix, altered header or body)
C4_VerifierExact ==
    verdict.judged /\ GITHUB_WEBHOOK_SECRET \in Keys =>
        LET signed == wire.header = Signature(GITHUB_WEBHOOK_SECRET, wire.body)
        IN  /\ verdict.app = signed
            /\ Returned(verdict.service, signed)

(***************************************************************************)
(* Properties of the X OAuth routes (SpecXOAuth).                          *)
(***************************************************************************)
\* C5: a callback whose state parameter differs from the state stored in the
\* session makes no call of exchange_code_for_token and writes no token row
C5_MismatchNeverExchanges ==
    [][x_request'.route = "callback" /\ x_request'.state # session.oauth_state
            => x_exchanges' = x_exchanges /\ oauth_tokens' = oauth_tokens]_vars

\* a callback carrying a code and a state other than the stored one was
\* turned away, after an earlier callback had connected an account
C5_Witness ==
    /\ x_request.route = "callback"
    /\ x_request.flash = "Invalid OAuth state"
    /\ Set(x_request.code)
    /\ x_request.state # session.oauth_state
    /\ session.oauth_state \in StateTokens
    /\ oauth_tokens # {}

(***************************************************************************)
(* Properties of the GitHub login routes (SpecGhLogin).                    *)
(***************************************************************************)
\* C6: the login step stores a state token in the session and sends it in
\* the authorization URL, and a callback whose state differs from the stored
\* one is rejected before the code is exchanged for an access token
C6_LoginStateChecked ==
    [][/\ (gh_request'.route = "login" /\ gh_request'.flash = None =>
              /\ Set(Get(gh_session', "oauth_state", None))
              /\ Get(gh_request'.url, "state", None) = Get(gh_session', "oauth_state", None))
       /\ (gh_request'.route = "callback"
              /\ gh_request'.state # Get(gh_session, "oauth_state", None) =>
                  gh_exchanges' = gh_exchanges)]_vars

(***************************************************************************)
(* Properties of the publishers (SpecPublisher).                           *)
(***************************************************************************)
\* C7: whatever the content, the text handed to create_tweet and to
\* update_status has at most 280 characters
C7_NeverOverLimit ==
    tweets.called => \A i \in DOMAIN tweets.calls : tweets.calls[i].text.len <= TweetLimit

\* C8: TwitterPoster.post_tweet calls create_tweet first, calls update_status
\* only when create_tweet raised or there is no v2 client, returns true
\* exactly when one of its calls succeeded, makes no call and returns false
\* when neither client exists, and never raises
C8_V2FirstThenFallback ==
    tweets.called /\ tweets.by = "TwitterPoster" =>
        LET calls == tweets.calls IN
        /\ tweets.result.raised = None
        /\ tweets.result.value = (\E i \in DOMAIN calls : calls[i].ok)
        /\ (~twitter_poster.client /\ ~twitter_poster.api =>
               calls = << >> /\ tweets.result.value = FALSE)
        /\ (twitter_poster.client => calls # << >> /\ calls[1].api = "create_tweet")
        /\ \A i \in DOMAIN calls :
               calls[i].api = "update_status" =>
                   \/ i = 1 /\ ~twitter_poster.client
                   \/ i = 2 /\ calls[1].api = "create_tweet" /\ ~calls[1].ok

\* create_tweet raised, update_status succeeded, post_tweet returned true
C8_Witness ==
    /\ tweets.called /\ tweets.by = "TwitterPoster"
    /\ Len(tweets.calls) = 2
    /\ ~tweets.calls[1].ok /\ tweets.calls[2].ok
    /\ tweets.result = Return(TRUE)

(***************************************************************************)
(* Properties of review and publication (SpecPosts).                       *)
(***************************************************************************)
\* C9: POST /posts/<id>/publish sets the post's status to posted and its
\* posted_at exactly when the publisher returned success; when the publisher
\* returned failure or the id is unknown, no row of posts changes
C9_PublishChangesOnlyOnSuccess ==
    [][response'.route = "publish" =>
          LET id == response'.post_id IN
          IF id \in Ids(posts) /\ tweets'.result = Return(TRUE)
          THEN LET row == get_post(posts', id)
               IN row.status = "posted" /\ row.posted_at # None
          ELSE posts' = posts]_vars

\* a publication failed after network calls, next to a post published before
C9_Witness ==
    /\ response.route = "publish"
    /\ response.flash = "Failed to publish post"
    /\ tweets.calls # << >>
    /\ get_post(posts, response.post_id).status # "posted"
    /\ \E i \in DOMAIN posts : posts[i].status = "posted" /\ posts[i].posted_at # None

\* C29: a published post stays published: a post whose publication
\* timestamp is set has the published status, whatever edit and publish
\* operations followed
C29_PublishedStaysPublished ==
    \A i \in DOMAIN posts : posts[i].posted_at # None => posts[i].status = "posted"

(***************************************************************************)
(* Properties of the content generator (SpecGenerator).                    *)
(***************************************************************************)
FallbackCase(call) ==
    ~call.client \/ call.completion.raises \/ call.completion.content = NULL

\* C10: generate_post never raises and never returns an empty string; when
\* the client is not configured or the completion call raises, it returns
\* the fallback text, which contains the commit message and the repository
\* name
C10_NeverRaisesNeverEmpty ==
    generated.called =>
        /\ generated.result.raised = None
        /\ generated.result.value.len > 0
        /\ (~generated.client \/ generated.completion.raises =>
               /\ generated.result.value = fallback_post(generated.commit_data)
               /\ {"commit_message", "repository_name"} \subseteq generated.result.value.has)

\* C10 as the code has it: generate_post never raises; without a client, or
\* when the completion call or the reading of its response raises, it returns
\* the fallback text, non-empty and containing the commit message and the
\* repository name; otherwise it returns the stripped completion, which is
\* empty exactly when the completion is empty or whitespace only
C10_FallbackOrStrippedCompletion ==
    generated.called =>
        /\ generated.result.raised = None
        /\ (FallbackCase(generated) =>
               /\ generated.result.value = fallback_post(generated.commit_data)
               /\ generated.result.value.len > 0
               /\ {"commit_message", "repository_name"} \subseteq generated.result.value.has)
        /\ (~FallbackCase(generated) =>
               /\ generated.result.value = strip(generated.completion.content)
               /\ (generated.result.value.len = 0 <=> IsBlank(generated.completion.content)))

\* a completion of whitespace only came back and the empty string was returned
C10_Witness ==
    /\ generated.called /\ generated.client
    /\ ~generated.completion.raises
    /\ generated.completion.content # NULL
    /\ generated.completion.content.len > 0
    /\ generated.result = Return(EmptyText)

(***************************************************************************)
(* Properties of the parameter validation (SpecValidate).                  *)
(***************************************************************************)
\* the date a str denotes is before the date another denotes
Before(a, b) ==
    LET x == strptime(a.chars).value
        y == strptime(b.chars).value
    IN \/ x.year < y.year
       \/ x.year = y.year /\ x.month < y.month
       \/ x.year = y.year /\ x.month = y.month /\ x.day < y.day

Parses(v) == strptime(v.chars).raised = None

\* C15: validate_report_parameters accepts exactly when both dates are
\* present, both parse as YYYY-MM-DD and from is chronologically before to;
\* otherwise it returns (False, message, None), the message being
\* 'from_date must be before to_date' for well-formed dates in the wrong
\* order and the invalid-format message when a date does not parse
C15_AcceptsExactlyOrderedDates ==
    validated.called =>
        LET data == validated.data
            r == validated.result
            f == Or(Get(data, "from", NULL), Get(data, "from_date", NULL))
            t == Or(Get(data, "to", NULL), Get(data, "to_date", NULL))
            present == NonEmpty(f) /\ NonEmpty(t)
            wellformed == present /\ Parses(f) /\ Parses(t)
            accept == wellformed /\ Before(f, t)
        IN /\ r.is_valid = accept
           /\ (accept => r.error = None /\ r.params # NULL)
           /\ (~accept => r.error # None /\ r.params = NULL)
           /\ (wellformed /\ ~Before(f, t) => r.error = "from_date must be before to_date")
           /\ (present /\ ~wellformed => r.error = "Invalid date format. Use YYYY-MM-DD")

(***************************************************************************)
(* Properties of the review-API client (SpecCrabbit).                      *)
(***************************************************************************)
\* the default prompt is needed and crprompt.md cannot be loaded
PromptLoadFails(call) ==
    Get(call.kwargs, "prompt", NULL) = NULL /\ call.file.raises # None

\* C14: generate_coderabbit_report lets no exception escape; a missing API
\* key, a timeout, a connection failure, a status other than 200, an
\* unparsable body and a failure to load the default prompt each yield
\* {status: 'error', error}, and only a 200 response yields
\* {status: 'success', data}
C14_NoExceptionEscapes ==
    crabbit.called =>
        LET r == crabbit.result
            failure ==
                \/ ~Set(crabbit.api_key)
                \/ PromptLoadFails(crabbit)
                \/ crabbit.http.raises # None
                \/ crabbit.http.status_code # 200
                \/ ~crabbit.http.parses
        IN /\ r.raised = None
           /\ (failure => r.value.status = "error" /\ "error" \in DOMAIN r.value)
           /\ (r.value.status = "success" =>
                  crabbit.http.raises = None /\ crabbit.http.status_code = 200
                  /\ "data" \in DOMAIN r.value)

C12_PendingRowBeforeTask ==
    /\ \A t \in cr_tasks :
          /\ rowcount_positive(coderabbit_reports, t.report_id)
          /\ (t.phase = "done" => t.updated)
    /\ (cr_handler.pc # "idle" =>
           rowcount_positive(coderabbit_reports, cr_handler.report_id))
    /\ (cr_handler.pc = "created" =>
           /\ coderabbit_reports[cr_handler.report_id].status = "pending"
           /\ \A t \in cr_tasks : t.report_id # cr_handler.report_id)
    /\ (cr_response.route = "analyze" /\ cr_response.code = 200 =>
           /\ cr_response.body.status = "pending"
           /\ rowcount_positive(coderabbit_reports, cr_response.body.report_id)
           /\ \E t \in cr_tasks : t.report_id = cr_response.body.report_id)

\* the handler has answered for report 2 while its task has not yet called
\* the review API, and the task of report 1 has updated its row
C12_Witness ==
    /\ cr_response.route = "analyze" /\ cr_response.code = 200
    /\ cr_response.body.report_id = 2
    /\ [report_id |-> 2, phase |-> "started"] \in cr_tasks
    /\ [report_id |-> 1, phase |-> "done", updated |-> TRUE] \in cr_tasks
    /\ coderabbit_reports[1].status # "pending"

\* C27: a background task writes the row of its own report and no other,
\* once; a row that has left pending never changes again
C27_TaskWritesOwnRowOnce ==
    [][\A i \in DOMAIN coderabbit_reports :
          /\ (coderabbit_reports[i].status # "pending" =>
                 coderabbit_reports'[i] = coderabbit_reports[i])
          /\ (coderabbit_reports'[i] # coderabbit_reports[i] =>
                 /\ TaskOf(coderabbit_reports[i].id).phase = "called"
                 /\ [report_id |-> coderabbit_reports[i].id, phase |-> "done",
                     updated |-> TRUE] \in cr_tasks'
                 /\ \A j \in DOMAIN coderabbit_reports :
                        j # i => coderabbit_reports'[j] = coderabbit_reports[j])]_vars

\* two tasks ran side by side: the second has written its row while the
\* first, already past its review call, has not
C27_Witness ==
    /\ Len(coderabbit_reports) = 2
    /\ coderabbit_reports[2].status = "completed"
    /\ coderabbit_reports[1].status = "pending"
    /\ TaskOf(1).phase = "called"
    /\ TaskOf(2).phase = "done"

\* the status of a report, once its row exists
StatusOf(report_id) ==
    IF report_id \in DOMAIN coderabbit_reports
    THEN coderabbit_reports[report_id].status ELSE "absent"

FailsValidation(data) ==
    LET f == Or(Get(data, "from", NULL), Get(data, "from_date", NULL))
        t == Or(Get(data, "to", NULL), Get(data, "to_date", NULL))
    IN ~(NonEmpty(f) /\ NonEmpty(t) /\ Parses(f) /\ Parses(t) /\ Before(f, t))

\* C16: a report request that fails validation is answered 400 and has no
\* other effect: no review API call, no report row, no metric row
C16_RejectedWithoutEffect ==
    [][/\ (rp_response'.route = "generate"
              /\ FailsValidation(rp_response'.body.request) =>
                  rp_response'.code = 400)
       /\ (reports' # reports \/ report_metrics' # report_metrics
              \/ review_calls' # review_calls =>
                  ~FailsValidation(rp_response'.body.request))]_vars

C18_MetricsOnceForCompleted ==
    [][/\ \A i \in DOMAIN report_metrics :
             i \in DOMAIN report_metrics' /\ report_metrics'[i] = report_metrics[i]
       /\ \A i \in DOMAIN report_metrics' :
             \E j \in DOMAIN reports' :
                 /\ reports'[j].id = report_metrics'[i].report_id
                 /\ reports'[j].status = "completed"
       /\ \A i, j \in DOMAIN report_metrics' :
             i # j => report_metrics'[i] # report_metrics'[j]
       /\ \A j \in DOMAIN reports : reports'[j].status = reports[j].status]_vars

\* a failed report without metric rows beside a completed one with several
C18_Witness ==
    /\ Len(reports) = 2
    /\ reports[1].status = "failed" /\ reports[2].status = "completed"
    /\ Len(report_metrics) >= 2
    /\ \A i \in DOMAIN report_metrics : report_metrics[i].report_id = 2
    /\ rp_response.route = "get_report" /\ rp_response.code = 200
    /\ rp_response.body.report.id = 2
    /\ rp_response.body.metrics = report_metrics

(***************************************************************************)
(* Properties of the commit ingestion (SpecIngest).                        *)
(***************************************************************************)
\* C19: running process_webhook_payload again with the same payload, or
\* sync_repository_commits over commits that are all stored already, adds
\* no Commit row, and the table never holds two rows with one github_id
C19_IngestionIdempotent ==
    [][/\ \A i, j \in DOMAIN commit_table' :
             i # j => commit_table'[i].github_id # commit_table'[j].github_id
       /\ (ingested.called /\ ingested'.op = ingested.op
              /\ ingested'.input = ingested.input =>
                  commit_table' = commit_table)
       /\ (ingested'.op = "sync_repository_commits"
              /\ (\A k \in DOMAIN ingested'.input.shas :
                     \E i \in DOMAIN commit_table :
                         commit_table[i].github_id = ingested'.input.shas[k]) =>
                  commit_table' = commit_table)]_vars

\* a payload of two commits was delivered when both were stored already
C19_Witness ==
    /\ ingested.called /\ ingested.op = "process_webhook_payload"
    /\ ingested.result = Return(TRUE)
    /\ Len(ingested.input.commits) = 2
    /\ Len(commit_table) = 2
    /\ ingested.before = commit_table
    /\ \A k \in 1..2 : commit_table[k].github_id = ingested.input.commits[k].id

\* C26: a token exchange happens only for a callback whose session holds a
\* state stored by /oauth/x/authorize and whose state parameter is that
\* state, and a successful exchange consumes the stored state, so a
\* callback without a stored state and a replayed callback are both turned
\* away before the exchange
C26_ExchangeOnlyAfterAuthorize ==
    [][x_exchanges' # x_exchanges =>
          /\ session.oauth_state \in StateTokens
          /\ x_request'.state = session.oauth_state
          /\ (oauth_tokens' # oauth_tokens => session'.oauth_state = None)]_vars

(***************************************************************************)
(* Properties of the token store (SpecXOAuth).                             *)
(***************************************************************************)
\* C20: oauth_tokens holds at most one row per (platform, user_id), so a
\* new authorization replaces the row of its account, and right after
\* /oauth/x/disconnect the account it disconnected has no row
C20_OneTokenRowPerAccount ==
    /\ \A r1, r2 \in oauth_tokens :
          r1.platform = r2.platform /\ r1.user_id = r2.user_id => r1 = r2
    /\ (x_request.route = "disconnect" /\ "user_id" \in DOMAIN x_request =>
           \A r \in oauth_tokens :
               ~(r.platform = "x" /\ r.user_id = x_request.user_id))

\* two accounts were connected and one of them has been disconnected
C20_Witness ==
    /\ x_request.route = "disconnect"
    /\ "user_id" \in DOMAIN x_request
    /\ x_exchanges = 2
    /\ Cardinality(oauth_tokens) = 1
    /\ \E r \in oauth_tokens : r.user_id # x_request.user_id

(***************************************************************************)
(* Properties of the post and repository routes (SpecSite).                *)
(***************************************************************************)

\* C21: a post row disappears only through its author's delete: in every
\* step that removes a post, the request was the delete route, answered 200,
\* called by the post's author for that post.
C21_PostLeavesOnlyByAuthorsDelete ==
    [][\A p \in post_table :
           (\A q \in post_table' : q.id # p.id) =>
               /\ site_response'.route = "delete_post"
               /\ site_response'.code = 200
               /\ site_response'.current_user = p.user_id
               /\ site_response'.id = p.id]_vars

\* C24: publish on a published post of the caller answers 400 'Post already
\* published' and changes nothing; publish, edit and delete on a post that is
\* not the caller's answer 'Post not found' and change nothing, and no such
\* request ever changes or removes a post of another user.
C24_OwnPostsOnly ==
    [][site_response'.route \in {"publish_post", "edit_post", "delete_post"} =>
          LET route == site_response'.route
              current_user == site_response'.current_user
              mine == {p \in post_table : /\ p.id = site_response'.id
                                          /\ p.user_id = current_user}
          IN  /\ mine = {} =>
                     /\ post_table' = post_table
                     /\ site_response'.body = "Post not found"
                     /\ site_response'.code =
                            (IF route = "edit_post" THEN 302 ELSE 404)
              /\ (route = "publish_post" /\ \E p \in mine :
                                                p.status = "published") =>
                     /\ post_table' = post_table
                     /\ site_response'.body = "Post already published"
                     /\ site_response'.code = 400
              /\ \A p \in post_table :
                     p.user_id # current_user => p \in post_table']_vars

\* a published post exists and its author's second publish was answered 400
C24_Witness ==
    /\ site_response.route = "publish_post"
    /\ site_response.code = 400
    /\ \E p \in post_table : /\ p.id = site_response.id
                             /\ p.user_id = site_response.current_user
                             /\ p.status = "published"

(***************************************************************************)
(* Properties of the listing routes (SpecList).                            *)
(***************************************************************************)

\* C22: GET /reports/bottom5 over n stored reports answers min(n, 5) reports,
\* and no stored report it leaves out was created later than one it returns.
C22_BottomFiveAreMostRecent ==
    listing.route = "bottom5" =>
        LET returned == {listing.reports[i].id : i \in DOMAIN listing.reports}
        IN  /\ Len(listing.reports) = Min(Len(report_rows), BottomCount)
            /\ Cardinality(returned) = Len(listing.reports)
            /\ \A i \in DOMAIN report_rows, j \in DOMAIN report_rows :
                   (report_rows[i].id \in returned
                        /\ report_rows[j].id \notin returned)
                   => report_rows[i].created_at >= report_rows[j].created_at

\* C23: GET /reports answers at most 100 reports whatever limit is passed.
C23_AtMostHundredReports ==
    (listing.route = "list" /\ listing.code = 200) =>
        Len(listing.result.reports) <= DocumentedMaxLimit

(***************************************************************************)
(* Properties of the device flow (SpecDevice).                             *)
(***************************************************************************)

C30_NoRequestMeetsMissingEntry ==
    device_last.route \in {"poll", "status"} => device_last.raised # "KeyError"

====
